---- MODULE Spec2Model ----
(***************************************************************************)
(* Verification model of the cellular_evolution simulation core:           *)
(*   - utils/data.rs        Heap<T>, the slot arena                        *)
(*   - core/sim.rs          SimulationState (cells + connections)          *)
(*   - core/physics.rs      the per-step physics pass                      *)
(*   - physics/forces.rs    ForceAppl for Cell and Lever, LinearSpring     *)
(*   - utils/vector.rs      Vec2d                                          *)
(*   - utils/algorithms.rs  CSR adjacency and connected groups             *)
(*                                                                         *)
(* Indices are 0-based as in the source; slot i of a Vec modelled by the   *)
(* sequence s is s[i + 1].                                                 *)
(***************************************************************************)
EXTENDS Integers, Sequences, FiniteSets, TLC

VARIABLES
    slots,        \* Heap::slots (in the simulation: state.cells.slots)
    connections,  \* SimulationState::connections
    viscosity,    \* SimulationState::context.viscosity
    steps,        \* number of completed physics passes
    pairs,        \* input edge list of the grouping (Vec<IdxPair>)
    max_index,    \* input max_index of the grouping
    csr,          \* output CSR of the grouping
    mutex,        \* the Mutex around the SimulationState (Arc<Mutex<..>>)
    pc,           \* where the stepping and the rendering context stand
    pass,         \* progress of the physics pass that is under way
    loader,       \* EnvironmentRenderLoader (the renderer's buffers)
    snapshot,     \* history: the state the renderer's last access was given
    last          \* the operation performed last, its arguments and result

vars == <<slots, connections, viscosity, steps, pairs, max_index, csr,
          mutex, pc, pass, loader, snapshot, last>>

(***************************************************************************)
(* Bounds of the model.                                                    *)
(***************************************************************************)
MaxSlots == 4       \* storage never grows beyond this many slots

\* allocate / insert at most this many slots per call (half of the storage
\* bound); with_capacity(c) is explored for c in 0..MaxCount
MaxCount == MaxSlots \div 2

\* The values of the generic arena Heap<T> (T is opaque to the arena).
Values == {"u", "v"}

(***************************************************************************)
(* Generic helpers for 0-based vectors.                                    *)
(***************************************************************************)
At(s, i) == s[i + 1]

Set(s, i, x) == [s EXCEPT ![i + 1] = x]

Indices(s) == 0 .. (Len(s) - 1)

Min(a, b) == IF a < b THEN a ELSE b

SeqsUpTo(S, n) == UNION {[1 .. k -> S] : k \in 0 .. n}

(***************************************************************************)
(* utils/data.rs : HeapSlot and Heap                                       *)
(***************************************************************************)
SlotNone == [tag |-> "None"]

SlotAllocated == [tag |-> "Allocated"]

SlotSome(v) == [tag |-> "Some", val |-> v]

IsNone(slot) == slot.tag = "None"

IsAllocated(slot) == slot.tag = "Allocated"

IsSome(slot) == slot.tag = "Some"

with_capacity(capacity) == [i \in 1 .. capacity |-> SlotNone]

\* mutant: a window counts as free when none of its slots holds a value
AllNotSome(s, i, j) == \A k \in i .. (j - 1) : ~IsSome(At(s, k))

\* self.slots[i..j].iter().all(|slot| matches!(slot, HeapSlot::None))
AllNone(s, i, j) == \A k \in i .. (j - 1) : IsNone(At(s, k))

\* self.slots[i..j].iter().all(|slot| matches!(slot, HeapSlot::Allocated))
AllAllocated(s, i, j) == \A k \in i .. (j - 1) : IsAllocated(At(s, k))

\* mutant: the scan accepts a window as soon as its first slot is free
RECURSIVE AllocScanFirstOnly(_, _, _)
AllocScanFirstOnly(s, count, i) ==
    IF i + count <= Len(s)
    THEN IF AllNone(s, i, Min(i + 1, i + count)) THEN i
         ELSE AllocScanFirstOnly(s, count, i + 1)
    ELSE -1

\* The while loop of allocate_slots: the first i with i + count <= len whose
\* window is entirely free, or -1 when the loop runs off the end.
RECURSIVE AllocScan(_, _, _)
AllocScan(s, count, i) ==
    IF i + count <= Len(s)
    THEN IF AllNone(s, i, i + count) THEN i
         ELSE AllocScan(s, count, i + 1)
    ELSE -1

\* mutant: freed slots are never reused, every reservation is appended
allocate_slots_append(s, count) ==
    [slots |-> s \o [k \in 1 .. count |-> SlotAllocated], ret |-> Len(s)]

allocate_slots(s, count) ==
    LET i == AllocScan(s, count, 0) IN
    IF i >= 0
    THEN [slots |-> [k \in 1 .. Len(s) |->
                        IF k - 1 >= i /\ k - 1 < i + count
                        THEN SlotAllocated ELSE s[k]],
          ret |-> i]
    ELSE [slots |-> s \o [k \in 1 .. count |-> SlotAllocated],
          ret |-> Len(s)]

\* mutant: only an initialized slot is released
free_initialized_only(s, slot) ==
    IF slot < Len(s)
    THEN [ok |-> TRUE,
          slots |-> IF IsSome(At(s, slot)) THEN Set(s, slot, SlotNone) ELSE s]
    ELSE [ok |-> FALSE, slots |-> s, panic |-> "index out of bounds"]

\* self.slots[slot] = HeapSlot::None; indexing past the end panics.
free(s, slot) ==
    IF slot < Len(s)
    THEN [ok |-> TRUE, slots |-> Set(s, slot, SlotNone)]
    ELSE [ok |-> FALSE, slots |-> s, panic |-> "index out of bounds"]

\* mutant: the state check of insert_vec is dropped
insert_vec_unchecked(s, start, values) ==
    LET end == start + Len(values) IN
    IF ~(end <= Len(s))
    THEN [ok |-> FALSE, slots |-> s, panic |-> "Range out of bounds"]
    ELSE [ok |-> TRUE,
          slots |-> [k \in 1 .. Len(s) |->
                        IF k - 1 >= start /\ k - 1 < end
                        THEN SlotSome(values[k - start]) ELSE s[k]]]

insert_vec(s, start, values) ==
    LET end == start + Len(values) IN
    IF ~(end <= Len(s))
    THEN [ok |-> FALSE, slots |-> s, panic |-> "Range out of bounds"]
    ELSE IF ~AllAllocated(s, start, end)
    THEN [ok |-> FALSE, slots |-> s,
          panic |-> "All target slots must be Allocated"]
    ELSE [ok |-> TRUE,
          slots |-> [k \in 1 .. Len(s) |->
                        IF k - 1 >= start /\ k - 1 < end
                        THEN SlotSome(values[k - start]) ELSE s[k]]]

insert_alloc_vec(s, values) ==
    LET al == allocate_slots(s, Len(values)) IN
    insert_vec(al.slots, al.ret, values)

\* A &mut T handed out by the arena is modelled by the absolute index of the
\* slot it points into.  split_at_mut(mid) yields the windows left =
\* slots[0..mid] and right = slots[mid..] (it panics when mid > len); element
\* j of a window is slot base + j (indexing panics when j >= len).
split_at_mut(s, mid) ==
    [left |-> [base |-> 0, len |-> mid],
     right |-> [base |-> mid, len |-> Len(s) - mid]]

Panic(msg) == [ok |-> FALSE, panic |-> msg]

\* mutant: a free slot is reported like a missing one
get_free_as_missing(s, index) ==
    IF index < Len(s)
    THEN LET slot == At(s, index) IN
         IF IsSome(slot) THEN [ok |-> TRUE, value |-> slot.val]
         ELSE IF IsAllocated(slot)
         THEN Panic("Slot at index is allocated but uninitialized")
         ELSE Panic("Index out of bounds")
    ELSE Panic("Index out of bounds")

\* Heap::get(index): match self.slots.get(index)
get(s, index) ==
    IF index < Len(s)
    THEN LET slot == At(s, index) IN
         IF IsSome(slot) THEN [ok |-> TRUE, value |-> slot.val]
         ELSE IF IsAllocated(slot)
         THEN Panic("Slot at index is allocated but uninitialized")
         ELSE Panic("Slot at index is free (None)")
    ELSE Panic("Index out of bounds")

\* Heap::get_mut(index): the same match, yielding a &mut T (the slot index)
get_mut(s, index) ==
    IF index < Len(s)
    THEN LET slot == At(s, index) IN
         IF IsSome(slot) THEN [ok |-> TRUE, ref |-> index]
         ELSE IF IsAllocated(slot)
         THEN Panic("Slot at index is allocated but uninitialized")
         ELSE Panic("Slot at index is free (None)")
    ELSE Panic("Index out of bounds")

\* mutant: in the a < b branch the slot behind right[0] is handed out
\* whatever its state
get_mut_pair_unchecked_right(s, a, b) ==
    IF a = b THEN Panic("Indices must be different")
    ELSE IF a < b
    THEN IF b > Len(s) THEN Panic("mid > len")
         ELSE LET sp == split_at_mut(s, b) IN
              IF ~IsSome(At(s, sp.left.base + a))
              THEN Panic("Slot at index a not initialized")
              ELSE IF ~(0 < sp.right.len) THEN Panic("index out of bounds")
              ELSE [ok |-> TRUE, first |-> sp.left.base + a,
                    second |-> sp.right.base + 0]
    ELSE IF a > Len(s) THEN Panic("mid > len")
         ELSE LET sp == split_at_mut(s, a) IN
              IF ~IsSome(At(s, sp.left.base + b))
              THEN Panic("Slot at index b not initialized")
              ELSE IF ~(0 < sp.right.len) THEN Panic("index out of bounds")
              ELSE IF ~IsSome(At(s, sp.right.base + 0))
              THEN Panic("Slot at index a not initialized")
              ELSE [ok |-> TRUE, first |-> sp.right.base + 0,
                    second |-> sp.left.base + b]

\* mutant: the a > b branch returns its two references in slice order
get_mut_pair_swapped(s, a, b) ==
    IF a = b THEN Panic("Indices must be different")
    ELSE IF a < b
    THEN IF b > Len(s) THEN Panic("mid > len")
         ELSE LET sp == split_at_mut(s, b) IN
              IF ~IsSome(At(s, sp.left.base + a))
              THEN Panic("Slot at index a not initialized")
              ELSE IF ~(0 < sp.right.len) THEN Panic("index out of bounds")
              ELSE IF ~IsSome(At(s, sp.right.base + 0))
              THEN Panic("Slot at index b not initialized")
              ELSE [ok |-> TRUE, first |-> sp.left.base + a,
                    second |-> sp.right.base + 0]
    ELSE IF a > Len(s) THEN Panic("mid > len")
         ELSE LET sp == split_at_mut(s, a) IN
              IF ~IsSome(At(s, sp.left.base + b))
              THEN Panic("Slot at index b not initialized")
              ELSE IF ~(0 < sp.right.len) THEN Panic("index out of bounds")
              ELSE IF ~IsSome(At(s, sp.right.base + 0))
              THEN Panic("Slot at index a not initialized")
              ELSE [ok |-> TRUE, first |-> sp.left.base + b,
                    second |-> sp.right.base + 0]

get_mut_pair(s, a, b) ==
    IF a = b THEN Panic("Indices must be different")
    ELSE IF a < b
    THEN IF b > Len(s) THEN Panic("mid > len")
         ELSE LET sp == split_at_mut(s, b) IN
              IF ~IsSome(At(s, sp.left.base + a))
              THEN Panic("Slot at index a not initialized")
              ELSE IF ~(0 < sp.right.len) THEN Panic("index out of bounds")
              ELSE IF ~IsSome(At(s, sp.right.base + 0))
              THEN Panic("Slot at index b not initialized")
              ELSE [ok |-> TRUE, first |-> sp.left.base + a,
                    second |-> sp.right.base + 0]
    ELSE IF a > Len(s) THEN Panic("mid > len")
         ELSE LET sp == split_at_mut(s, a) IN
              IF ~IsSome(At(s, sp.left.base + b))
              THEN Panic("Slot at index b not initialized")
              ELSE IF ~(0 < sp.right.len) THEN Panic("index out of bounds")
              ELSE IF ~IsSome(At(s, sp.right.base + 0))
              THEN Panic("Slot at index a not initialized")
              ELSE [ok |-> TRUE, first |-> sp.right.base + 0,
                    second |-> sp.left.base + b]

\* *reference = v for a reference obtained from the arena
WriteRef(s, ref, v) == Set(s, ref, SlotSome(v))

\* self.slots.iter().enumerate().filter_map(..) from slot i on: the pairs
\* (original_index, value) of the initialized slots, in iteration order
RECURSIVE FilterMapSome(_, _)
FilterMapSome(s, i) ==
    IF i >= Len(s) THEN <<>>
    ELSE IF IsSome(At(s, i))
    THEN <<[original_index |-> i, value |-> At(s, i).val]>>
            \o FilterMapSome(s, i + 1)
    ELSE FilterMapSome(s, i + 1)

\* mutant: the values are collected back to front
flatten_iter_reversed(s) ==
    LET some == FilterMapSome(s, 0) IN
    [n \in 1 .. Len(some) |-> some[Len(some) + 1 - n].value]

\* Heap::flatten_iter(): the values the iterator yields, in order
flatten_iter(s) ==
    LET some == FilterMapSome(s, 0) IN
    [n \in 1 .. Len(some) |-> some[n].value]

\* Heap::flatten_iter_mut(): the &mut T (slot indices) the iterator yields
flatten_iter_mut(s) ==
    LET some == FilterMapSome(s, 0) IN
    [n \in 1 .. Len(some) |-> some[n].original_index]

\* mutant: the second enumerate() is applied before the filter, so that the
\* flattened index repeats the original index
flatten_enumerate_rank_unfiltered(s) ==
    LET some == FilterMapSome(s, 0) IN
    [n \in 1 .. Len(some) |->
        <<some[n].original_index, some[n].original_index, some[n].value>>]

\* Heap::flatten_enumerate(): (original_index, flattened_index, value)
flatten_enumerate(s) ==
    LET some == FilterMapSome(s, 0) IN
    [n \in 1 .. Len(some) |->
        <<some[n].original_index, n - 1, some[n].value>>]

\* for x in heap.flatten_iter_mut() { *x = v }
RECURSIVE WriteRefs(_, _, _)
WriteRefs(s, refs, v) ==
    IF refs = <<>> THEN s
    ELSE WriteRefs(WriteRef(s, Head(refs), v), Tail(refs), v)

(***************************************************************************)
(* Specification of the arena on its own (Heap<T> with small values).      *)
(* A panic is fatal: once an operation has panicked nothing else happens.  *)
(***************************************************************************)
Running == last.outcome # "panic"

\* The mutex, the two contexts and the loader while nothing uses them (the
\* arena, the levers and the grouping are explored on their own).
MutexFree == [holder |-> "none", poisoned |-> FALSE]

PcIdle == [step |-> "idle", render |-> "idle"]

NoPass == [k |-> 0, n |-> 0, stmt |-> 0, damped |-> {}, integrated |-> {},
           pre |-> <<>>]

NoLoader == [flatten_lookup |-> <<>>, primitives |-> <<>>, connections |-> <<>>,
             gpu_primitives |-> <<>>, gpu_primitive_indices |-> <<>>,
             gpu_render_instances |-> <<>>]

NoSnapshot == [cells |-> <<>>, connections |-> <<>>]

AppIdle ==
    /\ mutex = MutexFree
    /\ pc = PcIdle
    /\ pass = NoPass
    /\ loader = NoLoader
    /\ snapshot = NoSnapshot

AppFrame == UNCHANGED <<mutex, pc, pass, loader, snapshot>>

IdleOthers ==
    /\ connections = <<>>
    /\ viscosity = 0
    /\ steps = 0
    /\ pairs = <<>>
    /\ max_index = 0
    /\ csr = [indices |-> <<>>, indptr |-> <<>>]
    /\ AppIdle

HeapInit ==
    /\ \E c \in 0 .. MaxCount : slots = with_capacity(c)
    /\ last = [op |-> "with_capacity", outcome |-> "ok"]
    /\ IdleOthers

HeapFrame ==
    /\ UNCHANGED <<connections, viscosity, steps, pairs, max_index, csr>>
    /\ AppFrame

AllocateSlots ==
    /\ Running
    /\ \E count \in 0 .. MaxCount :
          LET r == allocate_slots(slots, count) IN
          /\ Len(r.slots) <= MaxSlots
          /\ slots' = r.slots
          /\ last' = [op |-> "allocate_slots", count |-> count, pre |-> slots,
                      ret |-> r.ret, outcome |-> "ok",
                      freed |-> IF last.op = "free" THEN last.slot ELSE -1]
    /\ HeapFrame

Free ==
    /\ Running
    /\ \E slot \in 0 .. Len(slots) :
          LET r == free(slots, slot) IN
          /\ slots' = r.slots
          /\ last' = [op |-> "free", slot |-> slot, pre |-> slots,
                      outcome |-> IF r.ok THEN "ok" ELSE "panic"]
    /\ HeapFrame

InsertVec ==
    /\ Running
    /\ \E start \in 0 .. (Len(slots) + 1), values \in SeqsUpTo(Values, MaxCount) :
          LET r == insert_vec(slots, start, values) IN
          /\ slots' = r.slots
          /\ last' = [op |-> "insert_vec", start |-> start, values |-> values,
                      pre |-> slots,
                      outcome |-> IF r.ok THEN "ok" ELSE "panic"]
    /\ HeapFrame

InsertAllocVec ==
    /\ Running
    /\ \E values \in SeqsUpTo(Values, MaxCount) :
          LET r == insert_alloc_vec(slots, values) IN
          /\ Len(r.slots) <= MaxSlots
          /\ slots' = r.slots
          /\ last' = [op |-> "insert_alloc_vec", values |-> values,
                      pre |-> slots,
                      outcome |-> IF r.ok THEN "ok" ELSE "panic"]
    /\ HeapFrame

\* let (x, y) = heap.get_mut_pair(a, b); then the caller writes through x
\* (*x = "u") or through y (*y = "v").
GetMutPair ==
    /\ Running
    /\ \E a \in 0 .. Len(slots), b \in 0 .. Len(slots),
          write \in {"first", "second"} :
          LET r == get_mut_pair(slots, a, b)
              v == IF write = "first" THEN "u" ELSE "v"
          IN
          IF r.ok
          THEN /\ slots' = (IF write = "first"
                            THEN WriteRef(slots, r.first, v)
                            ELSE WriteRef(slots, r.second, v))
               /\ last' = [op |-> "get_mut_pair", a |-> a, b |-> b,
                           pre |-> slots, first |-> r.first,
                           second |-> r.second, write |-> write,
                           v |-> v, outcome |-> "ok"]
          ELSE /\ slots' = slots
               /\ last' = [op |-> "get_mut_pair", a |-> a, b |-> b,
                           pre |-> slots, outcome |-> "panic"]
    /\ HeapFrame

\* let x = heap.get(index)
Get ==
    /\ Running
    /\ \E index \in 0 .. Len(slots) :
          LET r == get(slots, index) IN
          last' = IF r.ok
                  THEN [op |-> "get", index |-> index, pre |-> slots,
                        value |-> r.value, outcome |-> "ok"]
                  ELSE [op |-> "get", index |-> index, pre |-> slots,
                        panic |-> r.panic, outcome |-> "panic"]
    /\ UNCHANGED slots
    /\ HeapFrame

\* *heap.get_mut(index) = v
GetMut ==
    /\ Running
    /\ \E index \in 0 .. Len(slots), v \in Values :
          LET r == get_mut(slots, index) IN
          IF r.ok
          THEN /\ slots' = WriteRef(slots, r.ref, v)
               /\ last' = [op |-> "get_mut", index |-> index, pre |-> slots,
                           ref |-> r.ref, v |-> v, outcome |-> "ok"]
          ELSE /\ slots' = slots
               /\ last' = [op |-> "get_mut", index |-> index, pre |-> slots,
                           panic |-> r.panic, outcome |-> "panic"]
    /\ HeapFrame

\* heap.flatten_iter().collect()
FlattenIter ==
    /\ Running
    /\ last' = [op |-> "flatten_iter", yielded |-> flatten_iter(slots),
                outcome |-> "ok"]
    /\ UNCHANGED slots
    /\ HeapFrame

\* for x in heap.flatten_iter_mut() { *x = v }
FlattenIterMut ==
    /\ Running
    /\ \E v \in Values :
          LET refs == flatten_iter_mut(slots) IN
          /\ slots' = WriteRefs(slots, refs, v)
          /\ last' = [op |-> "flatten_iter_mut", pre |-> slots,
                      yielded |-> refs, v |-> v, outcome |-> "ok"]
    /\ HeapFrame

\* heap.flatten_enumerate().collect()
FlattenEnumerate ==
    /\ Running
    /\ last' = [op |-> "flatten_enumerate",
                yielded |-> flatten_enumerate(slots), outcome |-> "ok"]
    /\ UNCHANGED slots
    /\ HeapFrame

HeapNext ==
    \/ AllocateSlots \/ Free \/ InsertVec \/ InsertAllocVec \/ GetMutPair
    \/ Get \/ GetMut \/ FlattenIter \/ FlattenIterMut \/ FlattenEnumerate

HeapSpec == HeapInit /\ [][HeapNext]_vars

(***************************************************************************)
(* utils/algorithms.rs : CSR adjacency and connected groups                *)
(***************************************************************************)
MaxIndex == 3       \* the grouping is explored for max_index in 0..MaxIndex
MaxPairs == 2       \* and for edge lists of at most this many pairs

IdxPair(a, b) == [a |-> a, b |-> b]

Repeat(x, n) == [i \in 1 .. n |-> x]

\* for conn in connections { degrees[conn.a] += 1; degrees[conn.b] += 1; }
RECURSIVE CountDegrees(_, _, _)
CountDegrees(conns, k, degrees) ==
    IF k > Len(conns) THEN degrees
    ELSE LET d1 == Set(degrees, conns[k].a, At(degrees, conns[k].a) + 1)
             d2 == Set(d1, conns[k].b, At(d1, conns[k].b) + 1)
         IN  CountDegrees(conns, k + 1, d2)

\* for &deg in &degrees { indptr.push((offset, offset + deg)); offset += deg }
RECURSIVE BuildIndptr(_, _, _, _)
BuildIndptr(degrees, k, offset, indptr) ==
    IF k > Len(degrees) THEN [indptr |-> indptr, offset |-> offset]
    ELSE BuildIndptr(degrees, k + 1, offset + degrees[k],
                     Append(indptr, IdxPair(offset, offset + degrees[k])))

\* for node in 0..node_count { indices[write_pos[node]] = node; ... += 1 }
RECURSIVE WriteSelf(_, _, _, _)
WriteSelf(node, node_count, indices, write_pos) ==
    IF node >= node_count THEN [indices |-> indices, write_pos |-> write_pos]
    ELSE WriteSelf(node + 1, node_count,
                   Set(indices, At(write_pos, node), node),
                   Set(write_pos, node, At(write_pos, node) + 1))

\* mutant: the second write of the loop stores b again instead of a
RECURSIVE WriteNeighborsOneWay(_, _, _, _)
WriteNeighborsOneWay(conns, k, indices, write_pos) ==
    IF k > Len(conns) THEN indices
    ELSE LET a == conns[k].a
             b == conns[k].b
             i1 == Set(indices, At(write_pos, a), b)
             w1 == Set(write_pos, a, At(write_pos, a) + 1)
             i2 == Set(i1, At(w1, b), b)
             w2 == Set(w1, b, At(w1, b) + 1)
         IN  WriteNeighborsOneWay(conns, k + 1, i2, w2)

\* for conn in connections { indices[write_pos[a]] = b; write_pos[a] += 1;
\*                           indices[write_pos[b]] = a; write_pos[b] += 1; }
RECURSIVE WriteNeighbors(_, _, _, _)
WriteNeighbors(conns, k, indices, write_pos) ==
    IF k > Len(conns) THEN indices
    ELSE LET a == conns[k].a
             b == conns[k].b
             i1 == Set(indices, At(write_pos, a), b)
             w1 == Set(write_pos, a, At(write_pos, a) + 1)
             i2 == Set(i1, At(w1, b), a)
             w2 == Set(w1, b, At(w1, b) + 1)
         IN  WriteNeighbors(conns, k + 1, i2, w2)

\* The caller guarantees every endpoint <= max_index; the function indexes
\* degrees[conn.a] unchecked otherwise (a panic), so it is applied only to
\* edge lists over 0..=max_index.
adjacent_from_connections(conns, maxi) ==
    LET node_count == maxi + 1
        degrees == CountDegrees(conns, 1, Repeat(1, node_count))
        ip == BuildIndptr(degrees, 1, 0, <<>>)
        write_pos == [n \in 1 .. node_count |-> ip.indptr[n].a]
        self == WriteSelf(0, node_count, Repeat(0, ip.offset), write_pos)
    IN  [indices |-> WriteNeighbors(conns, 1, self.indices, self.write_pos),
         indptr |-> ip.indptr]

\* mutant: a new neighbour goes to the front of the queue (push_front)
RECURSIVE VisitNeighborsFront(_, _, _, _, _)
VisitNeighborsFront(adj, pos, end, visited, queue) ==
    IF pos >= end THEN [visited |-> visited, queue |-> queue]
    ELSE LET neighbor == At(adj.indices, pos) IN
         IF ~At(visited, neighbor)
         THEN VisitNeighborsFront(adj, pos + 1, end,
                                  Set(visited, neighbor, TRUE),
                                  <<neighbor>> \o queue)
         ELSE VisitNeighborsFront(adj, pos + 1, end, visited, queue)

\* for &neighbor in &adj.indices[start..end] { if !visited[neighbor] { ... } }
RECURSIVE VisitNeighbors(_, _, _, _, _)
VisitNeighbors(adj, pos, end, visited, queue) ==
    IF pos >= end THEN [visited |-> visited, queue |-> queue]
    ELSE LET neighbor == At(adj.indices, pos) IN
         IF ~At(visited, neighbor)
         THEN VisitNeighbors(adj, pos + 1, end, Set(visited, neighbor, TRUE),
                             Append(queue, neighbor))
         ELSE VisitNeighbors(adj, pos + 1, end, visited, queue)

\* while let Some(node) = queue.pop_front() { indices.push(node); ... }
RECURSIVE Bfs(_, _, _, _)
Bfs(adj, queue, visited, indices) ==
    IF queue = <<>> THEN [visited |-> visited, indices |-> indices]
    ELSE LET node == Head(queue)
             range == At(adj.indptr, node)
             r == VisitNeighbors(adj, range.a, range.b, visited, Tail(queue))
         IN  Bfs(adj, r.queue, r.visited, Append(indices, node))

\* mutant: the start node is queued without being marked visited
RECURSIVE SweepUnmarkedStart(_, _, _, _, _, _)
SweepUnmarkedStart(adj, start_node, maxi, visited, indices, indptr) ==
    IF start_node > maxi THEN [indices |-> indices, indptr |-> indptr]
    ELSE IF At(visited, start_node)
    THEN SweepUnmarkedStart(adj, start_node + 1, maxi, visited, indices,
                            indptr)
    ELSE LET group_start_idx == Len(indices)
             r == Bfs(adj, <<start_node>>, visited, indices)
             group_end_idx == Len(r.indices)
         IN  SweepUnmarkedStart(adj, start_node + 1, maxi, r.visited,
                   r.indices,
                   Append(indptr, IdxPair(group_start_idx, group_end_idx)))

\* mutant: the sweep runs from max_index down to 0
RECURSIVE SweepDescending(_, _, _, _, _, _)
SweepDescending(adj, start_node, maxi, visited, indices, indptr) ==
    LET node == maxi - start_node IN
    IF start_node > maxi THEN [indices |-> indices, indptr |-> indptr]
    ELSE IF At(visited, node)
    THEN SweepDescending(adj, start_node + 1, maxi, visited, indices, indptr)
    ELSE LET group_start_idx == Len(indices)
             r == Bfs(adj, <<node>>, Set(visited, node, TRUE), indices)
             group_end_idx == Len(r.indices)
         IN  SweepDescending(adj, start_node + 1, maxi, r.visited, r.indices,
                   Append(indptr, IdxPair(group_start_idx, group_end_idx)))

\* for start_node in 0..=max_index { if visited[start_node] { continue; } ... }
RECURSIVE Sweep(_, _, _, _, _, _)
Sweep(adj, start_node, maxi, visited, indices, indptr) ==
    IF start_node > maxi THEN [indices |-> indices, indptr |-> indptr]
    ELSE IF At(visited, start_node)
    THEN Sweep(adj, start_node + 1, maxi, visited, indices, indptr)
    ELSE LET group_start_idx == Len(indices)
             r == Bfs(adj, <<start_node>>, Set(visited, start_node, TRUE),
                      indices)
             group_end_idx == Len(r.indices)
         IN  Sweep(adj, start_node + 1, maxi, r.visited, r.indices,
                   Append(indptr, IdxPair(group_start_idx, group_end_idx)))

groups_from_connections(conns, maxi) ==
    LET adj == adjacent_from_connections(conns, maxi) IN
    Sweep(adj, 0, maxi, Repeat(FALSE, maxi + 1), <<>>, <<>>)

\* testing/test.rs, test_csr: the edge list and max_index of the unit test
TestCsrConnections == <<IdxPair(0, 1), IdxPair(1, 2), IdxPair(3, 4)>>

TestCsrMaxIndex == 5

\* testing/benches.rs, organism_lookn_cells: the hub and its four corners
OrganismPairs == <<IdxPair(0, 1), IdxPair(0, 2), IdxPair(0, 3), IdxPair(0, 4)>>

OrganismMaxIndex == 4

(***************************************************************************)
(* Specification of the grouping: the input is drawn from the bounded edge *)
(* lists (or is the input of test_csr, or the edges of the organism of     *)
(* testing/benches.rs); the function is applied to it, and re-applied      *)
(* after two edges were exchanged or one edge was reversed.                *)
(***************************************************************************)
NoCsr == [indices |-> <<>>, indptr |-> <<>>]

CsrIdle ==
    /\ slots = <<>>
    /\ connections = <<>>
    /\ viscosity = 0
    /\ steps = 0
    /\ AppIdle

CsrInit ==
    /\ \/ /\ max_index \in 0 .. MaxIndex
          /\ pairs \in SeqsUpTo({IdxPair(a, b) : a, b \in 0 .. max_index},
                                MaxPairs)
       \/ /\ max_index = TestCsrMaxIndex
          /\ pairs = TestCsrConnections
       \/ /\ max_index = OrganismMaxIndex
          /\ pairs = OrganismPairs
    /\ csr = NoCsr
    /\ last = [op |-> "input", outcome |-> "ok"]
    /\ CsrIdle

CsrFrame == UNCHANGED <<slots, connections, viscosity, steps>> /\ AppFrame

GroupsFromConnections ==
    /\ last.op = "input"
    /\ csr' = groups_from_connections(pairs, max_index)
    /\ last' = [op |-> "groups_from_connections", outcome |-> "ok"]
    /\ UNCHANGED <<pairs, max_index>>
    /\ CsrFrame

Swap(s, i, j) == [s EXCEPT ![i] = s[j], ![j] = s[i]]

\* the same edges in another order, grouped again
RegroupPermuted ==
    /\ last.op # "input"
    /\ \E i, j \in 1 .. Len(pairs) :
          /\ i < j
          /\ pairs' = Swap(pairs, i, j)
          /\ csr' = groups_from_connections(pairs', max_index)
          /\ last' = [op |-> "regroup_permuted", before |-> csr,
                      outcome |-> "ok"]
    /\ UNCHANGED max_index
    /\ CsrFrame

\* one edge with its endpoints exchanged, grouped again
RegroupReversed ==
    /\ last.op # "input"
    /\ \E i \in 1 .. Len(pairs) :
          /\ pairs[i].a # pairs[i].b
          /\ pairs' = [pairs EXCEPT ![i] = IdxPair(pairs[i].b, pairs[i].a)]
          /\ csr' = groups_from_connections(pairs', max_index)
          /\ last' = [op |-> "regroup_reversed", before |-> csr,
                      outcome |-> "ok"]
    /\ UNCHANGED max_index
    /\ CsrFrame

CsrNext == GroupsFromConnections \/ RegroupPermuted \/ RegroupReversed

CsrSpec == CsrInit /\ [][CsrNext]_vars

(***************************************************************************)
(* f64 arithmetic.  A real number x is modelled by the integer x * Unit    *)
(* (fixed point with Unit steps per 1.0).  Addition and subtraction are    *)
(* exact; a product, a quotient and a square root are rounded toward zero  *)
(* to the grid, as f64 rounds to its own (much finer) grid.                *)
(***************************************************************************)
Unit == 16

Half == Unit \div 2      \* the literal 0.5

Pi == (Unit * 25) \div 8 \* std::f64::consts::PI on the grid (3.125)

HalfPi == Pi \div 2      \* a quarter turn, TAU / 4

Epsilon == 0             \* the literal 1e-10 on the grid

Abs(n) == IF n < 0 THEN -n ELSE n

\* integer quotient rounded toward zero
TDiv(n, d) ==
    IF (n < 0) = (d < 0) THEN Abs(n) \div Abs(d) ELSE -(Abs(n) \div Abs(d))

Mul(a, b) == TDiv(a * b, Unit)

Div(a, b) == TDiv(a * Unit, b)

RECURSIVE SqrtIter(_, _)
SqrtIter(n, x) ==
    LET y == (x + n \div x) \div 2 IN
    IF y >= x THEN x ELSE SqrtIter(n, y)

\* f64::sqrt of a non-negative number
Sqrt(a) == IF a <= 0 THEN 0 ELSE SqrtIter(a * Unit, a * Unit)

\* f64::cos and f64::sin: reduction to the first quadrant, then the Taylor
\* polynomial of the remainder t in [0, pi/2)
CosQ(t) ==
    LET t2 == Mul(t, t) IN Unit - TDiv(t2, 2) + TDiv(Mul(t2, t2), 24)

SinQ(t) ==
    LET t2 == Mul(t, t)
        t3 == Mul(t2, t)
    IN  t - TDiv(t3, 6) + TDiv(Mul(t3, t2), 120)

Cos(a) ==
    LET r == a % (4 * HalfPi)
        q == r \div HalfPi
        t == r % HalfPi
    IN  CASE q = 0 -> CosQ(t)
          [] q = 1 -> -SinQ(t)
          [] q = 2 -> -CosQ(t)
          [] OTHER -> SinQ(t)

Sin(a) ==
    LET r == a % (4 * HalfPi)
        q == r \div HalfPi
        t == r % HalfPi
    IN  CASE q = 0 -> SinQ(t)
          [] q = 1 -> CosQ(t)
          [] q = 2 -> -SinQ(t)
          [] OTHER -> -CosQ(t)

(***************************************************************************)
(* utils/vector.rs : Vec2d                                                 *)
(***************************************************************************)
Vec2d(x, y) == [x |-> x, y |-> y]

ZERO == Vec2d(0, 0)

from_angle(a) == Vec2d(Cos(a), Sin(a))

dot(v, other) == Mul(v.x, other.x) + Mul(v.y, other.y)

length(v) == Sqrt(dot(v, v))

VAdd(v, rhs) == Vec2d(v.x + rhs.x, v.y + rhs.y)

VSub(v, rhs) == Vec2d(v.x - rhs.x, v.y - rhs.y)

VMul(v, rhs) == Vec2d(Mul(v.x, rhs), Mul(v.y, rhs))

VDiv(v, rhs) == Vec2d(Div(v.x, rhs), Div(v.y, rhs))

VNeg(v) == Vec2d(-v.x, -v.y)

\* mutant: a vector of zero length is normalized to the unit vector of x
normalize_to_axis(v) ==
    LET len == length(v) IN
    IF len = 0 THEN [x |-> Unit, y |-> 0] ELSE VDiv(v, len)

normalize(v) ==
    LET len == length(v) IN IF len = 0 THEN ZERO ELSE VDiv(v, len)

perp(v) == Vec2d(-v.y, v.x)

\* mutant: the dot product where the cross product is meant
perp_dot_as_dot(v, other) == Mul(v.x, other.x) + Mul(v.y, other.y)

perp_dot(v, other) == Mul(v.x, other.y) - Mul(v.y, other.x)

(***************************************************************************)
(* physics/objects.rs : Disk;  core/elements.rs : Cell, CellConnection     *)
(* (Cell::typ only selects the rendered shape and is left out)             *)
(***************************************************************************)
DiskFromMass(mass, radius) ==
    LET area == Mul(Mul(Pi, radius), radius)
        density == IF area # 0 THEN Div(mass, area) ELSE 0
    IN  [radius |-> radius, density |-> density]

DiskMass(disk) ==
    LET area == Mul(Mul(Pi, disk.radius), disk.radius) IN
    Mul(area, disk.density)

DiskRotationalInertia(disk) ==
    Mul(Mul(Mul(Half, disk.radius), disk.radius), DiskMass(disk))

\* Cell::new(pos, typ)
NewCell(position) ==
    LET disk == DiskFromMass(Unit, Unit) IN
    [mass |-> DiskMass(disk),
     angular_inertia |-> DiskRotationalInertia(disk),
     force |-> ZERO,
     position |-> position,
     velocity |-> ZERO,
     torque |-> 0,
     angle |-> 0,
     angular_velocity |-> 0,
     size |-> Unit]

CellConnection(id_a, angle_a, id_b, angle_b) ==
    [id_a |-> id_a, angle_a |-> angle_a, id_b |-> id_b, angle_b |-> angle_b]

points_toward(conn, id) == conn.id_a = id \/ conn.id_b = id

(***************************************************************************)
(* physics/forces.rs : ForceAppl for Cell and for Lever, LinearSpring.     *)
(* A ForceAppl receiver is a cell (kind "cell") or a lever on a cell (kind *)
(* "lever", holding the cell it borrows mutably); an operation returns the *)
(* receiver with the borrowed cell updated.                                *)
(***************************************************************************)
Body(cell) == [kind |-> "cell", body |-> cell]

Lever(cell, application) ==
    [kind |-> "lever", body |-> cell, application |-> application]

cell_apply_force(cell, force) == [cell EXCEPT !.force = VAdd(@, force)]

cell_apply_torque(cell, torque) == [cell EXCEPT !.torque = @ + torque]

cell_pos(cell) == cell.position

lever_apply_force(lever, force) ==
    LET b1 == cell_apply_force(lever.body, force)
        torque == perp_dot(lever.application, force)
    IN  [lever EXCEPT !.body = cell_apply_torque(b1, torque)]

\* mutant: a lever with no arm drops the torque
lever_apply_torque_dropped(lever, torque) ==
    LET r_mag == length(lever.application) IN
    IF r_mag > Epsilon
    THEN LET force_direction == VDiv(perp(lever.application), r_mag)
             force_magnitude == Div(torque, r_mag)
             force == VMul(force_direction, force_magnitude)
         IN  [lever EXCEPT !.body = cell_apply_force(@, force)]
    ELSE lever

lever_apply_torque(lever, torque) ==
    LET r_mag == length(lever.application) IN
    IF r_mag > Epsilon
    THEN LET force_direction == VDiv(perp(lever.application), r_mag)
             force_magnitude == Div(torque, r_mag)
             force == VMul(force_direction, force_magnitude)
         IN  [lever EXCEPT !.body = cell_apply_force(@, force)]
    ELSE [lever EXCEPT !.body = cell_apply_torque(@, torque)]

lever_pos(lever) == VAdd(cell_pos(lever.body), lever.application)

apply_force(t, force) ==
    IF t.kind = "cell" THEN [t EXCEPT !.body = cell_apply_force(@, force)]
    ELSE lever_apply_force(t, force)

apply_torque(t, torque) ==
    IF t.kind = "cell" THEN [t EXCEPT !.body = cell_apply_torque(@, torque)]
    ELSE lever_apply_torque(t, torque)

pos(t) == IF t.kind = "cell" THEN cell_pos(t.body) ELSE lever_pos(t)

LinearSpring(len, k) == [length |-> len, k |-> k]

\* the two springs of core/physics.rs
SpringK == 50 * Unit          \* k: 50.0

CenterLength == 2 * Unit      \* length: 2.0 of the center spring

EdgeLength == 0 * Unit        \* length: 0.0 of the edge spring

\* mutant: the stretch is the whole distance, the rest length is ignored
tick_no_rest_length(spring, a, b) ==
    LET delta == VSub(pos(b), pos(a))
        stretch == length(delta)
        force_mag == Mul(-spring.k, stretch)
        force_dir == normalize(delta)
        force == VMul(force_dir, force_mag)
    IN  [a |-> apply_force(a, VMul(force, -Unit)),
         b |-> apply_force(b, force)]

\* mutant: both ends receive the force with the same sign
tick_same_sign(spring, a, b) ==
    LET delta == VSub(pos(b), pos(a))
        stretch == length(delta) - spring.length
        force_mag == Mul(-spring.k, stretch)
        force_dir == normalize(delta)
        force == VMul(force_dir, force_mag)
    IN  [a |-> apply_force(a, force),
         b |-> apply_force(b, force)]

\* LinearSpring::tick(a, b): the receivers after the two forces were applied
tick(spring, a, b) ==
    LET delta == VSub(pos(b), pos(a))
        stretch == length(delta) - spring.length
        force_mag == Mul(-spring.k, stretch)
        force_dir == normalize(delta)
        force == VMul(force_dir, force_mag)
    IN  [a |-> apply_force(a, VMul(force, -Unit)),
         b |-> apply_force(b, force)]

(***************************************************************************)
(* Specification of the force receivers: one cell, created by Cell::new,   *)
(* on which levers with a chosen application offset receive forces and     *)
(* torques.  The offsets are axis-aligned with lengths 0, 0.5, 1 and 2, so *)
(* that lengths and quotients are exact on the grid.                       *)
(***************************************************************************)
MaxApplies == 2     \* forces and torques applied to the cell

Positions == {ZERO, Vec2d(2 * Unit, 0), Vec2d(0, Unit)}

Applications ==
    {ZERO, Vec2d(Unit, 0), Vec2d(0, 2 * Unit), Vec2d(-Half, 0), Vec2d(0, -Unit)}

Forces == {Vec2d(Unit, 0), Vec2d(0, -2 * Unit), Vec2d(Unit, 3 * Unit)}

Torques == {Unit, -2 * Unit}

ForceInit ==
    /\ \E p \in Positions : slots = <<SlotSome(NewCell(p))>>
    /\ last = [op |-> "new", outcome |-> "ok"]
    /\ IdleOthers

ForceFrame ==
    UNCHANGED <<connections, viscosity, pairs, max_index, csr>> /\ AppFrame

\* Lever { body: &mut cell, application }.apply_force(force)
LeverApplyForce ==
    /\ steps < MaxApplies
    /\ \E application \in Applications, force \in Forces :
          LET cell == At(slots, 0).val
              lever == Lever(cell, application)
          IN  /\ slots' = <<SlotSome(lever_apply_force(lever, force).body)>>
              /\ last' = [op |-> "lever_apply_force", pre |-> cell,
                          application |-> application, force |-> force,
                          pos |-> lever_pos(lever), outcome |-> "ok"]
    /\ steps' = steps + 1
    /\ ForceFrame

\* Lever { body: &mut cell, application }.apply_torque(torque)
LeverApplyTorque ==
    /\ steps < MaxApplies
    /\ \E application \in Applications, torque \in Torques :
          LET cell == At(slots, 0).val
              lever == Lever(cell, application)
          IN  /\ slots' = <<SlotSome(lever_apply_torque(lever, torque).body)>>
              /\ last' = [op |-> "lever_apply_torque", pre |-> cell,
                          application |-> application, torque |-> torque,
                          pos |-> lever_pos(lever), outcome |-> "ok"]
    /\ steps' = steps + 1
    /\ ForceFrame

ForceNext == LeverApplyForce \/ LeverApplyTorque

ForceSpec == ForceInit /\ [][ForceNext]_vars

(***************************************************************************)
(* Specification of the spring: two cells created by Cell::new, between    *)
(* which springs of a chosen rest length and stiffness act, on the cells   *)
(* themselves or on levers on them.  The two ends lie on one axis, at the  *)
(* same place or 0.5, 1, 2 or 3 apart, so that lengths and unit vectors    *)
(* are exact on the grid.                                                  *)
(***************************************************************************)
MaxTicks == 2       \* springs applied to the pair of cells

SpringOffsets == {0, Half, Unit, 3 * Unit, -2 * Unit}

SpringEnds ==
    {<<Vec2d(a, 0), Vec2d(b, 0)>> : a \in {0, Unit}, b \in SpringOffsets}
        \cup {<<Vec2d(0, a), Vec2d(0, b)>> : a \in {0, Unit}, b \in SpringOffsets}

RestLengths == {EdgeLength, CenterLength}

Stiffnesses == {Unit, SpringK}

\* lever offsets along the axis of the two ends
LeverOffsets == {Half, -Unit}

SpringInit ==
    /\ \E ends \in SpringEnds :
          slots = <<SlotSome(NewCell(ends[1])), SlotSome(NewCell(ends[2]))>>
    /\ last = [op |-> "new", outcome |-> "ok"]
    /\ IdleOthers

\* LinearSpring { length, k }.tick(cell_a, cell_b)
SpringTickCells ==
    /\ steps < MaxTicks
    /\ \E len \in RestLengths, k \in Stiffnesses :
          LET cell_a == At(slots, 0).val
              cell_b == At(slots, 1).val
              r == tick(LinearSpring(len, k), Body(cell_a), Body(cell_b))
          IN  /\ slots' = <<SlotSome(r.a.body), SlotSome(r.b.body)>>
              /\ last' = [op |-> "tick", kind |-> "cell", length |-> len,
                          k |-> k, pre_a |-> cell_a, pre_b |-> cell_b,
                          pos_a |-> cell_pos(cell_a), pos_b |-> cell_pos(cell_b),
                          outcome |-> "ok"]
    /\ steps' = steps + 1
    /\ ForceFrame

\* LinearSpring { length, k }.tick(&mut Lever { body: cell_a, .. },
\*                                 &mut Lever { body: cell_b, .. })
SpringTickLevers ==
    /\ steps < MaxTicks
    /\ \E len \in RestLengths, k \in Stiffnesses, oa, ob \in LeverOffsets :
          LET cell_a == At(slots, 0).val
              cell_b == At(slots, 1).val
              along(o) == IF cell_a.position.y = 0 /\ cell_b.position.y = 0
                          THEN Vec2d(o, 0) ELSE Vec2d(0, o)
              lever_a == Lever(cell_a, along(oa))
              lever_b == Lever(cell_b, along(ob))
              r == tick(LinearSpring(len, k), lever_a, lever_b)
          IN  /\ slots' = <<SlotSome(r.a.body), SlotSome(r.b.body)>>
              /\ last' = [op |-> "tick", kind |-> "lever", length |-> len,
                          k |-> k, pre_a |-> cell_a, pre_b |-> cell_b,
                          pos_a |-> lever_pos(lever_a),
                          pos_b |-> lever_pos(lever_b), outcome |-> "ok"]
    /\ steps' = steps + 1
    /\ ForceFrame

SpringNext == SpringTickCells \/ SpringTickLevers

SpringSpec == SpringInit /\ [][SpringNext]_vars

(***************************************************************************)
(* core/sim.rs and core/physics.rs : SimulationState                       *)
(***************************************************************************)
\* v.swap_remove(i): element i is replaced by the last one, which is popped
swap_remove(v, i) ==
    LET n == Len(v) IN
    IF i = n - 1 THEN SubSeq(v, 1, n - 1)
    ELSE SubSeq(Set(v, i, v[n]), 1, n - 1)

\* mutant: the scan runs forward (position j = len - i), and steps to j + 1
\* after a swap_remove as well
RECURSIVE RemoveLoopForward(_, _, _)
RemoveLoopForward(conns, i, id) ==
    LET j == Len(conns) - i IN
    IF j < 0 \/ j >= Len(conns) THEN conns
    ELSE IF points_toward(At(conns, j), id)
    THEN RemoveLoopForward(swap_remove(conns, j), i - 2, id)
    ELSE RemoveLoopForward(conns, i - 1, id)

\* let mut i = len; while i > 0 { i -= 1; if points_toward { swap_remove } }
RECURSIVE RemoveLoop(_, _, _)
RemoveLoop(conns, i, id) ==
    IF ~(i > 0) THEN conns
    ELSE IF points_toward(At(conns, i - 1), id)
    THEN RemoveLoop(swap_remove(conns, i - 1), i - 1, id)
    ELSE RemoveLoop(conns, i - 1, id)

\* mutant: the cell is freed and the connections are left as they are
remove_keeps_connections(cells, conns, id) ==
    LET f == free(cells, id) IN
    IF ~f.ok THEN [ok |-> FALSE, slots |-> cells, connections |-> conns]
    ELSE [ok |-> TRUE, slots |-> f.slots, connections |-> conns]

\* SimulationState::remove(id)
remove(cells, conns, id) ==
    LET f == free(cells, id) IN
    IF ~f.ok THEN [ok |-> FALSE, slots |-> cells, connections |-> conns]
    ELSE [ok |-> TRUE, slots |-> f.slots,
          connections |-> RemoveLoop(conns, Len(conns), id)]

\* Cell::edge_lever(angle)
edge_lever(cell, angle) ==
    LET direction == from_angle(cell.angle + angle)
        application == VMul(VMul(direction, cell.size), Half)
    IN  Lever(cell, application)

\* mutant: the drag is not scaled by the viscosity
apply_viscous_force_unscaled(cell, visc) ==
    LET force == VMul(VNeg(cell.velocity), cell.size)
        torque == Mul(-cell.angular_velocity, cell.size)
    IN  cell_apply_torque(cell_apply_force(cell, force), torque)

apply_viscous_force(cell, visc) ==
    LET force == VMul(VMul(VNeg(cell.velocity), cell.size), visc)
        torque == Mul(Mul(-cell.angular_velocity, cell.size), visc)
    IN  cell_apply_torque(cell_apply_force(cell, force), torque)

\* mutant: the torque accumulator is not reset
apply_force_integrate_keep_torque(cell, dt) ==
    LET velocity == VAdd(cell.velocity, VDiv(VMul(cell.force, dt), cell.mass))
        position == VAdd(cell.position, VMul(velocity, dt))
        angular_velocity == cell.angular_velocity
                              + Div(Mul(cell.torque, dt), cell.angular_inertia)
        angle == cell.angle + Mul(angular_velocity, dt)
    IN  [cell EXCEPT !.velocity = velocity, !.position = position,
                     !.angular_velocity = angular_velocity, !.angle = angle,
                     !.force = ZERO]

\* Cell::apply_force_integrate(dt)
apply_force_integrate(cell, dt) ==
    LET velocity == VAdd(cell.velocity, VDiv(VMul(cell.force, dt), cell.mass))
        position == VAdd(cell.position, VMul(velocity, dt))
        angular_velocity == cell.angular_velocity
                              + Div(Mul(cell.torque, dt), cell.angular_inertia)
        angle == cell.angle + Mul(angular_velocity, dt)
    IN  [cell EXCEPT !.velocity = velocity, !.position = position,
                     !.angular_velocity = angular_velocity, !.angle = angle,
                     !.force = ZERO, !.torque = 0]

\* the edge spring, on the levers of the two cells the center spring left
EdgeSpring(center, connection) ==
    tick(LinearSpring(EdgeLength, SpringK),
         edge_lever(center.a.body, connection.angle_a),
         edge_lever(center.b.body, connection.angle_b))

\* the cells behind the two references, as the springs left them
WritePair(cells, pair, sprung) ==
    WriteRef(WriteRef(cells, pair.first, sprung.a.body),
             pair.second, sprung.b.body)

\* The two springs of one connection acting on the pair (cell_a, cell_b):
\* the center spring on the cells, then the edge spring on their levers.
SpringPair(cell_a, cell_b, connection) ==
    EdgeSpring(tick(LinearSpring(CenterLength, SpringK),
                    Body(cell_a), Body(cell_b)), connection)

\* mutant: a connection whose pair cannot be fetched is skipped
SpringOnPairSkipping(cells, connection, pair) ==
    IF ~pair.ok THEN [ok |-> TRUE, slots |-> cells]
    ELSE [ok |-> TRUE,
          slots |-> WritePair(cells, pair,
                              SpringPair(At(cells, pair.first).val,
                                         At(cells, pair.second).val,
                                         connection))]

\* The body of the first loop of physics_pass for one connection, given the
\* result of get_mut_pair: a failed get_mut_pair panics, otherwise the
\* springs act through the two references.
SpringOnPair(cells, connection, pair) ==
    IF ~pair.ok THEN [ok |-> FALSE, slots |-> cells]
    ELSE [ok |-> TRUE,
          slots |-> WritePair(cells, pair,
                              SpringPair(At(cells, pair.first).val,
                                         At(cells, pair.second).val,
                                         connection))]

SpringBody(cells, connection) ==
    SpringOnPair(cells, connection,
                 get_mut_pair(cells, connection.id_a, connection.id_b))

\* The first loop of physics_pass, from connection k on; a failing
\* get_mut_pair panics with the forces accumulated so far.
RECURSIVE SpringLoop(_, _, _)
RECURSIVE SpringLoopAfter(_, _, _, _)
SpringLoopAfter(body, cells, conns, k) ==
    IF ~body.ok THEN [ok |-> FALSE, slots |-> cells]
    ELSE SpringLoop(body.slots, conns, k + 1)

SpringLoop(cells, conns, k) ==
    IF k > Len(conns) THEN [ok |-> TRUE, slots |-> cells]
    ELSE SpringLoopAfter(SpringBody(cells, conns[k]), cells, conns, k)

\* The second loop of physics_pass: for cell in self.cells.flatten_iter_mut()
IntegrateLoop(cells, visc, dt) ==
    [i \in 1 .. Len(cells) |->
        IF IsSome(cells[i])
        THEN SlotSome(apply_force_integrate(
                          apply_viscous_force(cells[i].val, visc), dt))
        ELSE cells[i]]

\* SimulationState::physics_pass(dt); accumulated is the arena between the
\* two loops
PassAfterSprings(sp, visc, dt) ==
    IF ~sp.ok THEN [ok |-> FALSE, slots |-> sp.slots, accumulated |-> sp.slots]
    ELSE [ok |-> TRUE, slots |-> IntegrateLoop(sp.slots, visc, dt),
          accumulated |-> sp.slots]

physics_pass(cells, conns, visc, dt) ==
    PassAfterSprings(SpringLoop(cells, conns, 1), visc, dt)

(***************************************************************************)
(* Specification of the stepped simulation.  SimulationState::new reserves *)
(* 100 free slots; the model explores a reserve of SimCapacity slots and   *)
(* lets the storage grow by one slot beyond it.  Cells are created by      *)
(* Cell::new and inserted one at a time with insert_alloc_vec, connections *)
(* are pushed as in testing/benches.rs (angle_a a quarter turn, angle_b 0) *)
(* between any two indices of the storage, and the state is stepped with   *)
(* physics_pass.  Removal of cells is explored in the cell graph below.    *)
(***************************************************************************)
SimCapacity == 1    \* free slots reserved by SimulationState::new
MaxSprings == 1     \* connections of the stepped simulation
MaxSteps == 2       \* physics passes

Dt == 1             \* physics.dt, one step of the grid

Viscosities == {0, Unit}

SimPositions == {ZERO, Vec2d(3 * Unit, 0)}

\* SimulationState::new(context), with a reserve of capacity free slots
NewState(capacity) ==
    /\ slots = with_capacity(capacity)
    /\ connections = <<>>
    /\ viscosity \in Viscosities
    /\ steps = 0
    /\ pairs = <<>>
    /\ max_index = 0
    /\ csr = NoCsr
    /\ AppIdle
    /\ last = [op |-> "new", outcome |-> "ok"]

SimInit == NewState(SimCapacity)

SimFrame == UNCHANGED <<viscosity, pairs, max_index, csr>> /\ AppFrame

\* state.cells.insert_alloc_vec(vec![Cell::new(p, typ)]); start is the index
\* the cell was given, removed the index a remove() just before had freed
\* (-1 if the last operation was no remove) and purged the number of
\* connections that remove() had taken from the list
InsertCells(positions, capacity) ==
    /\ Running
    /\ \E p \in positions :
          LET r == insert_alloc_vec(slots, <<NewCell(p)>>)
              after_remove == last.op = "remove" /\ last.outcome = "ok"
          IN
          /\ Len(r.slots) <= capacity + 1
          /\ slots' = r.slots
          /\ last' = [op |-> "insert_cells",
                      start |-> allocate_slots(slots, 1).ret,
                      removed |-> IF after_remove THEN last.id ELSE -1,
                      purged |-> IF after_remove
                                 THEN Len(last.pre_connections)
                                         - Len(connections)
                                 ELSE 0,
                      outcome |-> "ok"]
    /\ UNCHANGED <<connections, steps>>
    /\ SimFrame

\* state.connections.push(CellConnection::new(a, q, b, 0.0))
Connect(bound) ==
    /\ Running
    /\ Len(connections) < bound
    /\ \E a \in Indices(slots), b \in Indices(slots) :
          connections' = Append(connections, CellConnection(a, HalfPi, b, 0))
    /\ last' = [op |-> "connect", outcome |-> "ok"]
    /\ UNCHANGED <<slots, steps>>
    /\ SimFrame

\* state.connections.push(CellConnection::new(a, q, b, 0.0)) as the callers
\* of the repository do it: between two distinct cells that are in the arena
ConnectCells(bound) ==
    /\ Running
    /\ Len(connections) < bound
    /\ \E a \in Indices(slots), b \in Indices(slots) :
          /\ a # b
          /\ IsSome(At(slots, a))
          /\ IsSome(At(slots, b))
          /\ connections' = Append(connections, CellConnection(a, HalfPi, b, 0))
    /\ last' = [op |-> "connect", outcome |-> "ok"]
    /\ UNCHANGED <<slots, steps>>
    /\ SimFrame

\* state.remove(id)
Remove ==
    /\ Running
    /\ \E id \in 0 .. Len(slots) :
          LET r == remove(slots, connections, id) IN
          /\ slots' = r.slots
          /\ connections' = r.connections
          /\ last' = [op |-> "remove", id |-> id, pre_slots |-> slots,
                      pre_connections |-> connections,
                      outcome |-> IF r.ok THEN "ok" ELSE "panic"]
    /\ UNCHANGED steps
    /\ SimFrame

\* state.physics_pass(dt); origin is the arena before the first of the
\* passes that followed one another without another operation in between,
\* and passes their number
PassEffect(r, again) ==
    /\ slots' = r.slots
    /\ steps' = IF r.ok THEN steps + 1 ELSE steps
    /\ last' = [op |-> "physics_pass", pre |-> slots,
                accumulated |-> r.accumulated,
                origin |-> IF again THEN last.origin ELSE slots,
                passes |-> IF again THEN last.passes + 1 ELSE 1,
                outcome |-> IF r.ok THEN "ok" ELSE "panic"]

Pass(bound) ==
    /\ Running
    /\ steps < bound
    /\ PassEffect(physics_pass(slots, connections, viscosity, Dt),
                  last.op = "physics_pass")
    /\ UNCHANGED connections
    /\ SimFrame

PhysicsPass == Pass(MaxSteps)

SimInsertCells == InsertCells(SimPositions, SimCapacity)

SimConnect == Connect(MaxSprings)

SimNext == SimInsertCells \/ SimConnect \/ PhysicsPass

SimSpec == SimInit /\ [][SimNext]_vars

(***************************************************************************)
(* Specification of the cell graph: the same state with removal of cells   *)
(* and longer connection lists, without the physics pass (which changes    *)
(* neither the state of a slot nor the connection list).                   *)
(***************************************************************************)
MaxConns == 2       \* connections of the cell graph
GraphCapacity == 2  \* free slots reserved by SimulationState::new

GraphInsertCells == InsertCells({ZERO}, GraphCapacity)

GraphConnect == Connect(MaxConns)

GraphInit == NewState(GraphCapacity) /\ viscosity = 0

GraphNext == GraphInsertCells \/ GraphConnect \/ Remove

GraphSpec == GraphInit /\ [][GraphNext]_vars

(***************************************************************************)
(* Specification of the life of cells: cells are inserted, connected as    *)
(* the callers of the repository connect them (two distinct cells of the   *)
(* arena), removed and stepped, in any order.  The cells are created at    *)
(* the origin, in a fluid without viscosity.                               *)
(***************************************************************************)
MaxLifeSteps == 1   \* physics passes in the life of the cells

LifeInit == NewState(SimCapacity) /\ viscosity = 0

LifeInsertCells == InsertCells({ZERO}, SimCapacity)

LifeConnect == ConnectCells(MaxSprings)

LifePass == Pass(MaxLifeSteps)

LifeNext == LifeInsertCells \/ LifeConnect \/ Remove \/ LifePass

LifeSpec == LifeInit /\ [][LifeNext]_vars

(***************************************************************************)
(* Specification of cells in flight: an organism as built by               *)
(* testing/benches.rs (a hub and the cells connected to it, or a single    *)
(* cell) is stepped, and cells are removed from it; removing the hub       *)
(* leaves the other cells moving with no connection between them.          *)
(***************************************************************************)
MaxPasses == 3      \* physics passes of the organism
MaxCells == 3       \* cells of the organism

\* bound.corners() of benches::organism_lookn_cells, in the order bl, br
Corners == <<Vec2d(-2 * Unit, -2 * Unit), Vec2d(2 * Unit, -2 * Unit),
             Vec2d(-2 * Unit, 2 * Unit), Vec2d(2 * Unit, 2 * Unit)>>

\* SimulationState::new reserves more free slots (100) than the organisms
\* have cells (1 or 5)
OrganismCapacity == MaxCells + 1

\* organism_single_cell (n = 1) and organism_lookn_cells with n - 1 corners
Organism(n) ==
    LET cells == [i \in 1 .. n |->
                     NewCell(IF i = 1 THEN ZERO ELSE Corners[i - 1])]
    IN  [slots |-> insert_alloc_vec(with_capacity(OrganismCapacity), cells).slots,
         connections |-> [k \in 1 .. (n - 1) |->
                             CellConnection(0, (k - 1) * HalfPi, k, 0)]]

FlightInit ==
    /\ \E n \in 1 .. MaxCells :
          /\ slots = Organism(n).slots
          /\ connections = Organism(n).connections
    /\ viscosity \in Viscosities
    /\ steps = 0
    /\ pairs = <<>>
    /\ max_index = 0
    /\ csr = NoCsr
    /\ AppIdle
    /\ last = [op |-> "new", outcome |-> "ok"]

FlightPass == Pass(MaxPasses)

FlightNext == FlightPass \/ Remove

FlightSpec == FlightInit /\ [][FlightNext]_vars

(***************************************************************************)
(* Specification of a faulty connection: the organism is stepped, and one  *)
(* connection more than the organism has is pushed between any two indices *)
(* of the storage (a free slot and twice the same index included).         *)
(***************************************************************************)
FaultConnect ==
    /\ Len(connections) < Len(flatten_iter(slots))
    /\ Connect(MaxCells)

FaultNext == FlightPass \/ FaultConnect

FaultSpec == FlightInit /\ [][FaultNext]_vars

(***************************************************************************)
(* graphics/loaders.rs : EnvironmentRenderLoader.  A primitive is the      *)
(* transform of its cell (the shape and colour chosen by Cell::typ and the *)
(* bounding boxes of the render instances are left out).                   *)
(***************************************************************************)
\* vec![0; 100]: as long as the reserve of SimulationState::new
LookupLen == OrganismCapacity

\* EnvironmentRenderLoader::new() and the buffers after flush()
flush ==
    [flatten_lookup |-> Repeat(0, LookupLen), primitives |-> <<>>,
     connections |-> <<>>, gpu_primitives |-> <<>>,
     gpu_primitive_indices |-> <<>>, gpu_render_instances |-> <<>>]

\* cell.get_transform()
get_transform(cell) ==
    [translate |-> cell.position, rotate |-> cell.angle, scale |-> cell.size]

\* the first loop of access, from the n-th triple of flatten_enumerate on
RECURSIVE AccessCells(_, _, _)
AccessCells(l, triples, n) ==
    IF n > Len(triples) THEN [ok |-> TRUE, loader |-> l]
    ELSE LET og_index == triples[n][1]
             flat_index == triples[n][2]
             cell == triples[n][3]
         IN  IF ~(og_index < Len(l.flatten_lookup))
             THEN [ok |-> FALSE, loader |-> l]
             ELSE AccessCells(
                      [l EXCEPT !.flatten_lookup = Set(@, og_index, flat_index),
                                !.primitives = Append(@, get_transform(cell))],
                      triples, n + 1)

\* EnvironmentRenderLoader::access(state)
access(l, cells, conns) ==
    LET r == AccessCells(l, flatten_enumerate(cells), 1) IN
    IF ~r.ok THEN r
    ELSE [ok |-> TRUE,
          loader |-> [r.loader EXCEPT !.connections =
                         @ \o [k \in 1 .. Len(conns) |->
                                  IdxPair(conns[k].id_a, conns[k].id_b)]]]

\* EnvironmentRenderLoader::process(): the endpoints are rewritten through
\* flatten_lookup, the primitives are grouped over max_index =
\* primitives.len() - 1 and the groups become the render instances
process(l) ==
    IF \E k \in 1 .. Len(l.connections) :
          ~(l.connections[k].a < Len(l.flatten_lookup))
             \/ ~(l.connections[k].b < Len(l.flatten_lookup))
    THEN [ok |-> FALSE, loader |-> l]
    ELSE LET mapped == [k \in 1 .. Len(l.connections) |->
                           IdxPair(At(l.flatten_lookup, l.connections[k].a),
                                   At(l.flatten_lookup, l.connections[k].b))]
             max == Len(l.primitives) - 1
         IN  IF max < 0
                   \/ \E k \in 1 .. Len(mapped) :
                         mapped[k].a > max \/ mapped[k].b > max
             THEN [ok |-> FALSE, loader |-> [l EXCEPT !.connections = mapped]]
             ELSE LET group_csr == groups_from_connections(mapped, max) IN
                  [ok |-> TRUE,
                   loader |-> [l EXCEPT
                      !.connections = mapped,
                      !.gpu_render_instances =
                          [g \in 1 .. Len(group_csr.indptr) |->
                              [start_i |-> group_csr.indptr[g].a,
                               end_i |-> group_csr.indptr[g].b]],
                      !.gpu_primitive_indices = group_csr.indices,
                      !.gpu_primitives = l.primitives]]

\* EnvironmentRenderLoader::run(state) from flush() on, given the result of
\* access: a panic in access leaves run before process
RunAfterAccess(accessed) ==
    IF ~accessed.ok THEN accessed ELSE process(accessed.loader)

\* EnvironmentRenderLoader::run(state), without another context at work
run(cells, conns) == RunAfterAccess(access(flush, cells, conns))

(***************************************************************************)
(* Specification of the loader on the states of the simulation: cells are  *)
(* inserted, connected as the callers of the repository connect them and   *)
(* removed, and the loader is run on the state.                            *)
(***************************************************************************)
LoaderRunEffect(r) ==
    /\ loader' = r.loader
    /\ last' = [op |-> "run", outcome |-> IF r.ok THEN "ok" ELSE "panic"]

LoaderRun ==
    /\ Running
    /\ LoaderRunEffect(run(slots, connections))
    /\ UNCHANGED <<slots, connections, steps, viscosity, pairs, max_index,
                   csr, mutex, pc, pass, snapshot>>

RenderNext == LifeInsertCells \/ LifeConnect \/ Remove \/ LoaderRun

RenderSpec == LifeInit /\ [][RenderNext]_vars

(***************************************************************************)
(* app/app.rs : the frame loop.  The stepping context locks the state and  *)
(* runs physics_pass under the lock (the guard is a temporary of the       *)
(* statement); the rendering context runs EnvironmentRenderLoader::run.    *)
(* The pass is followed statement by statement, so that the other context  *)
(* may run between any two of them.                                        *)
(***************************************************************************)
MaxFrames == 2      \* frames stepped by the stepping context

\* mutant: the state is reached without waiting for the mutex
lock_available_unguarded(m) == TRUE

\* Mutex::lock() returns once no other context holds the guard
lock_available(m) == m.holder = "none"

\* the Result of lock(): Err(PoisonError) once a holder has panicked
lock_result(m, who) ==
    IF m.poisoned THEN [ok |-> FALSE, mutex |-> m]
    ELSE [ok |-> TRUE, mutex |-> [m EXCEPT !.holder = who]]

\* mutant: the guard outlives the block, the mutex stays held
unlock_guard_kept(m, panicking) == m

\* the guard is dropped, during a panic it poisons the mutex
unlock(m, panicking) ==
    [holder |-> "none", poisoned |-> m.poisoned \/ panicking]

\* mutant: the cell is integrated before its drag is applied
CellLoopBodyIntegrateFirst == <<"apply_force_integrate", "apply_viscous_force">>

\* the statements of the body of the second loop of physics_pass
CellLoopBody == <<"apply_viscous_force", "apply_force_integrate">>

CellStatement(name, cell, visc, dt) ==
    IF name = "apply_viscous_force" THEN apply_viscous_force(cell, visc)
    ELSE apply_force_integrate(cell, dt)

AppInit ==
    /\ \E n \in 1 .. MaxCells :
          /\ slots = Organism(n).slots
          /\ connections = Organism(n).connections
    /\ viscosity \in Viscosities
    /\ steps = 0
    /\ pairs = <<>>
    /\ max_index = 0
    /\ csr = NoCsr
    /\ mutex = MutexFree
    /\ pc = PcIdle
    /\ pass = NoPass
    /\ loader = flush
    /\ snapshot = NoSnapshot
    /\ last = [op |-> "new", outcome |-> "ok"]

AppFixed == UNCHANGED <<connections, viscosity, pairs, max_index, csr>>

\* sim.state.lock().unwrap()
StepLock ==
    /\ pc.step = "idle"
    /\ steps < MaxFrames
    /\ lock_available(mutex)
    /\ LET r == lock_result(mutex, "step") IN
          IF r.ok
          THEN /\ mutex' = r.mutex
               /\ pc' = [pc EXCEPT !.step = "pass"]
               /\ pass' = [k |-> 1, n |-> 1, stmt |-> 1, damped |-> {},
                           integrated |-> {}, pre |-> slots]
               /\ last' = [op |-> "step_lock", outcome |-> "ok"]
          ELSE /\ pc' = [pc EXCEPT !.step = "panicked"]
               /\ last' = [op |-> "step_lock", outcome |-> "panic"]
               /\ UNCHANGED <<mutex, pass>>
    /\ UNCHANGED <<slots, steps, loader, snapshot>>
    /\ AppFixed

\* one iteration of for connection in self.connections.iter() { .. }
StepSpring ==
    /\ pc.step = "pass"
    /\ pass.k <= Len(connections)
    /\ LET r == SpringBody(slots, connections[pass.k]) IN
          IF r.ok
          THEN /\ slots' = r.slots
               /\ pass' = [pass EXCEPT !.k = @ + 1]
               /\ last' = [op |-> "step_spring", outcome |-> "ok"]
               /\ UNCHANGED <<mutex, pc>>
          ELSE /\ pc' = [pc EXCEPT !.step = "panicked"]
               /\ mutex' = unlock(mutex, TRUE)
               /\ last' = [op |-> "step_spring", outcome |-> "panic"]
               /\ UNCHANGED <<slots, pass>>
    /\ UNCHANGED <<steps, loader, snapshot>>
    /\ AppFixed

\* one statement of for cell in self.cells.flatten_iter_mut() { .. }
StepCell ==
    /\ pc.step = "pass"
    /\ pass.k > Len(connections)
    /\ LET refs == flatten_iter_mut(slots) IN
          /\ pass.n <= Len(refs)
          /\ LET ref == refs[pass.n]
                 name == CellLoopBody[pass.stmt]
                 end == pass.stmt = Len(CellLoopBody)
             IN  /\ slots' = WriteRef(slots, ref,
                                 CellStatement(name, At(slots, ref).val,
                                               viscosity, Dt))
                 /\ pass' = [pass EXCEPT
                       !.damped = IF name = "apply_viscous_force"
                                  THEN @ \cup {ref} ELSE @,
                       !.integrated = IF name = "apply_force_integrate"
                                      THEN @ \cup {ref} ELSE @,
                       !.stmt = IF end THEN 1 ELSE @ + 1,
                       !.n = IF end THEN @ + 1 ELSE @]
    /\ last' = [op |-> "step_cell", outcome |-> "ok"]
    /\ UNCHANGED <<mutex, pc, steps, loader, snapshot>>
    /\ AppFixed

\* physics_pass returns and the guard is dropped
StepUnlock ==
    /\ pc.step = "pass"
    /\ pass.k > Len(connections)
    /\ pass.n > Len(flatten_iter_mut(slots))
    /\ mutex' = unlock(mutex, FALSE)
    /\ pc' = [pc EXCEPT !.step = "idle"]
    /\ pass' = NoPass
    /\ steps' = steps + 1
    /\ last' = [op |-> "step_unlock", pre |-> pass.pre, outcome |-> "ok"]
    /\ UNCHANGED <<slots, loader, snapshot>>
    /\ AppFixed

\* self.flush()
RenderFlush ==
    /\ pc.render = "idle"
    /\ loader' = flush
    /\ pc' = [pc EXCEPT !.render = "flushed"]
    /\ last' = [op |-> "flush", outcome |-> "ok"]
    /\ UNCHANGED <<slots, steps, mutex, pass, snapshot>>
    /\ AppFixed

\* state.lock().expect("Failed to lock SimulationState")
RenderLock ==
    /\ pc.render = "flushed"
    /\ lock_available(mutex)
    /\ LET r == lock_result(mutex, "render") IN
          IF r.ok
          THEN /\ mutex' = r.mutex
               /\ pc' = [pc EXCEPT !.render = "locked"]
               /\ last' = [op |-> "render_lock", outcome |-> "ok"]
          ELSE /\ pc' = [pc EXCEPT !.render = "panicked"]
               /\ last' = [op |-> "render_lock", outcome |-> "panic"]
               /\ UNCHANGED mutex
    /\ UNCHANGED <<slots, steps, pass, loader, snapshot>>
    /\ AppFixed

\* self.access(&mut state); seen is the arena the reader was given and
\* during the progress of the pass at that moment
RenderAccess ==
    /\ pc.render = "locked"
    /\ LET r == access(loader, slots, connections) IN
          IF r.ok
          THEN /\ loader' = r.loader
               /\ snapshot' = [cells |-> slots, connections |-> connections]
               /\ pc' = [pc EXCEPT !.render = "accessed"]
               /\ last' = [op |-> "access", seen |-> slots, during |-> pass,
                           frames |-> steps, outcome |-> "ok"]
               /\ UNCHANGED mutex
          ELSE /\ pc' = [pc EXCEPT !.render = "panicked"]
               /\ mutex' = unlock(mutex, TRUE)
               /\ last' = [op |-> "access", outcome |-> "panic"]
               /\ UNCHANGED <<loader, snapshot>>
    /\ UNCHANGED <<slots, steps, pass>>
    /\ AppFixed

\* the end of the block: the guard is dropped
RenderUnlock ==
    /\ pc.render = "accessed"
    /\ mutex' = unlock(mutex, FALSE)
    /\ pc' = [pc EXCEPT !.render = "released"]
    /\ last' = [op |-> "render_unlock", outcome |-> "ok"]
    /\ UNCHANGED <<slots, steps, pass, loader, snapshot>>
    /\ AppFixed

\* self.process()
RenderProcess ==
    /\ pc.render = "released"
    /\ LET r == process(loader) IN
          /\ loader' = r.loader
          /\ pc' = [pc EXCEPT !.render = IF r.ok THEN "idle" ELSE "panicked"]
          /\ last' = [op |-> "process",
                      outcome |-> IF r.ok THEN "ok" ELSE "panic"]
    /\ UNCHANGED <<slots, steps, mutex, pass, snapshot>>
    /\ AppFixed

AppNext ==
    \/ StepLock \/ StepSpring \/ StepCell \/ StepUnlock
    \/ RenderFlush \/ RenderLock \/ RenderAccess \/ RenderUnlock
    \/ RenderProcess

AppSpec == AppInit /\ [][AppNext]_vars

(***************************************************************************)
(* Claims about the arena.                                                 *)
(***************************************************************************)
Occupied(s, i) == i < Len(s) /\ IsSome(At(s, i))

\* C1: for a # b both Occupied, get_mut_pair(a, b) succeeds and returns
\* (reference to slot a, reference to slot b) in that order, whether a < b or
\* a > b; a write through the first reference changes only slot a, a write
\* through the second only slot b, and every other slot keeps its state and
\* value.
C1_PairOrderAndIsolation ==
    (last.op = "get_mut_pair" /\ last.a # last.b
        /\ Occupied(last.pre, last.a) /\ Occupied(last.pre, last.b)) =>
        /\ last.outcome = "ok"
        /\ last.first = last.a
        /\ last.second = last.b
        /\ Len(slots) = Len(last.pre)
        /\ \A i \in Indices(slots) :
              At(slots, i) =
                 IF i = last.a /\ last.write = "first"
                 THEN SlotSome(last.v)
                 ELSE IF i = last.b /\ last.write = "second"
                 THEN SlotSome(last.v)
                 ELSE At(last.pre, i)

C1_Witness ==
    /\ last.op = "get_mut_pair"
    /\ last.outcome = "ok"
    /\ last.a > last.b
    /\ last.write = "first"
    /\ At(last.pre, last.a) # SlotSome(last.v)
    /\ Len(slots) >= 3

\* C2: allocate(n) is first-fit from index 0: it returns the smallest i such
\* that slots i..i+n-1 all exist and are Free and marks exactly those
\* Allocated; only when there is no such run does it append n Allocated slots
\* and return the old length.  No slot outside the returned run changes.
FreeRunAt(s, i, n) == \A k \in i .. (i + n - 1) : k < Len(s) /\ IsNone(At(s, k))

C2_FirstFit ==
    last.op = "allocate_slots" =>
        LET pre == last.pre
            n == last.count
            fits == {i \in 0 .. Len(pre) : FreeRunAt(pre, i, n)}
        IN  /\ fits # {} =>
                 /\ last.ret \in fits
                 /\ \A i \in fits : last.ret <= i
                 /\ Len(slots) = Len(pre)
            /\ fits = {} =>
                 /\ last.ret = Len(pre)
                 /\ Len(slots) = Len(pre) + n
            /\ \A i \in Indices(slots) :
                 At(slots, i) =
                    IF i >= last.ret /\ i < last.ret + n THEN SlotAllocated
                    ELSE At(pre, i)

C2_Witness ==
    /\ last.op = "allocate_slots"
    /\ last.count = 2
    /\ last.ret > 1
    /\ last.ret < Len(last.pre)
    /\ IsNone(At(last.pre, 0))

\* C3: insert(start, values) succeeds only if every target slot exists and is
\* Allocated, and then exactly those slots become Occupied with values[i] at
\* start + i; if a target slot is Free, Occupied or out of range the call
\* panics, and a panicking call has changed no slot.
ValidTargets(s, start, n) ==
    \A k \in start .. (start + n - 1) : k < Len(s) /\ IsAllocated(At(s, k))

C3_InsertChecked ==
    last.op = "insert_vec" =>
        LET pre == last.pre
            n == Len(last.values)
        IN  /\ last.outcome = "ok" =>
                 /\ ValidTargets(pre, last.start, n)
                 /\ Len(slots) = Len(pre)
                 /\ \A i \in Indices(slots) :
                       At(slots, i) =
                          IF i >= last.start /\ i < last.start + n
                          THEN SlotSome(last.values[i - last.start + 1])
                          ELSE At(pre, i)
            /\ ~ValidTargets(pre, last.start, n) => last.outcome = "panic"
            /\ last.outcome = "panic" => slots = pre

C3_Witness ==
    /\ last.op = "insert_vec"
    /\ last.outcome = "panic"
    /\ Len(last.values) = 2
    /\ last.start + 1 < Len(last.pre)
    /\ IsAllocated(At(last.pre, last.start))
    /\ IsSome(At(last.pre, last.start + 1))

\* C15: get_mut_pair(a, b) fails fatally whenever a = b and whenever slot a or
\* slot b is Free, Allocated or beyond the end of the storage; a failing call
\* leaves every slot's state and value unchanged.
C15_PairContract ==
    (last.op = "get_mut_pair"
        /\ (last.a = last.b \/ ~Occupied(last.pre, last.a)
                            \/ ~Occupied(last.pre, last.b))) =>
        /\ last.outcome = "panic"
        /\ slots = last.pre

C15_Witness ==
    /\ last.op = "get_mut_pair"
    /\ last.outcome = "panic"
    /\ last.a < last.b
    /\ Occupied(last.pre, last.a)
    /\ last.b < Len(last.pre)
    /\ IsAllocated(At(last.pre, last.b))

\* C16: free(index) on an existing slot sets that slot to Free whatever it
\* was (Free, Allocated or Occupied); freeing a Free slot changes nothing;
\* no other slot changes and the storage keeps its length.
C16_FreeFrame ==
    (last.op = "free" /\ last.slot < Len(last.pre)) =>
        /\ last.outcome = "ok"
        /\ Len(slots) = Len(last.pre)
        /\ \A i \in Indices(slots) :
              At(slots, i) = IF i = last.slot THEN SlotNone ELSE At(last.pre, i)
        /\ IsNone(At(last.pre, last.slot)) => slots = last.pre

C16_Witness ==
    /\ last.op = "free"
    /\ last.outcome = "ok"
    /\ IsAllocated(At(last.pre, last.slot))
    /\ \E i \in Indices(slots) : i > last.slot /\ IsSome(At(slots, i))
    /\ \E i \in Indices(slots) : i < last.slot /\ IsAllocated(At(slots, i))

\* C17: free(i) immediately followed by allocate(1) returns the lowest Free
\* index of the arena: never more than i, and i exactly when no slot below i
\* is Free; the returned slot is then Allocated.
FreeIndices(s) == {j \in Indices(s) : IsNone(At(s, j))}

C17_Reuse ==
    (last.op = "allocate_slots" /\ last.count = 1 /\ last.freed >= 0) =>
        /\ last.ret \in FreeIndices(last.pre)
        /\ \A j \in FreeIndices(last.pre) : last.ret <= j
        /\ last.ret <= last.freed
        /\ (last.ret = last.freed) <=>
              (\A j \in FreeIndices(last.pre) : ~(j < last.freed))
        /\ IsAllocated(At(slots, last.ret))

C17_Witness ==
    /\ last.op = "allocate_slots"
    /\ last.count = 1
    /\ last.freed >= 1
    /\ last.ret = last.freed
    /\ last.ret + 1 < Len(slots)
    /\ IsNone(At(slots, last.ret + 1))

\* C18: get(index) and get_mut(index) return the stored value (a reference to
\* it) if and only if the slot is Occupied; they fail with the
\* uninitialized-slot kind when the slot exists but is Free or Allocated and
\* with the distinct out-of-bounds kind when index >= the storage length; a
\* failing call changes nothing.
UninitializedKind == {"Slot at index is allocated but uninitialized",
                      "Slot at index is free (None)"}

OutOfBoundsKind == {"Index out of bounds"}

C18_GetKinds ==
    last.op \in {"get", "get_mut"} =>
        /\ (last.outcome = "ok") <=> Occupied(last.pre, last.index)
        /\ (last.op = "get" /\ last.outcome = "ok") =>
              last.value = At(last.pre, last.index).val
        /\ (last.op = "get_mut" /\ last.outcome = "ok") =>
              /\ last.ref = last.index
              /\ slots = Set(last.pre, last.index, SlotSome(last.v))
        /\ (last.index < Len(last.pre) /\ ~IsSome(At(last.pre, last.index))) =>
              last.outcome = "panic" /\ last.panic \in UninitializedKind
        /\ last.index >= Len(last.pre) =>
              last.outcome = "panic" /\ last.panic \in OutOfBoundsKind
        /\ UninitializedKind \cap OutOfBoundsKind = {}
        /\ (last.outcome = "panic" \/ last.op = "get") => slots = last.pre

C18_Witness ==
    /\ last.op = "get"
    /\ last.outcome = "panic"
    /\ last.index < Len(last.pre)
    /\ IsNone(At(last.pre, last.index))
    /\ \E i \in Indices(slots) : IsSome(At(slots, i))

\* C19: after any sequence of allocate, insert, insert_batch and free,
\* iter / iter_mut yield exactly the values of the Occupied slots, each once,
\* in ascending slot order; a Free or Allocated slot is never yielded.
OccupiedIndices(s) == {i \in Indices(s) : IsSome(At(s, i))}

\* the number of Occupied slots below slot i
RankOf(s, i) == Cardinality({j \in OccupiedIndices(s) : j < i})

C19_IterOccupied ==
    /\ last.op = "flatten_iter" =>
          /\ Len(last.yielded) = Cardinality(OccupiedIndices(slots))
          /\ \A i \in OccupiedIndices(slots) :
                last.yielded[RankOf(slots, i) + 1] = At(slots, i).val
    /\ last.op = "flatten_iter_mut" =>
          /\ Len(last.yielded) = Cardinality(OccupiedIndices(last.pre))
          /\ \A i \in OccupiedIndices(last.pre) :
                last.yielded[RankOf(last.pre, i) + 1] = i
          /\ Len(slots) = Len(last.pre)
          /\ \A i \in Indices(slots) :
                At(slots, i) = IF IsSome(At(last.pre, i)) THEN SlotSome(last.v)
                               ELSE At(last.pre, i)

C19_Witness ==
    /\ last.op = "flatten_iter"
    /\ Len(last.yielded) = 2
    /\ last.yielded[1] # last.yielded[2]
    /\ Len(slots) = 4
    /\ IsAllocated(At(slots, 0))
    /\ IsNone(At(slots, 2))

\* C20: enumerate yields one triple (original_index, dense_rank, value) per
\* Occupied slot in ascending original_index, where dense_rank is the number
\* of Occupied slots with a smaller index: the ranks are exactly 0 .. k-1 for
\* k Occupied slots and original_index -> dense_rank is injective and
\* order-preserving.
C20_DenseRanks ==
    last.op = "flatten_enumerate" =>
        LET y == last.yielded
            k == Cardinality(OccupiedIndices(slots))
        IN  /\ Len(y) = k
            /\ {y[n][1] : n \in 1 .. Len(y)} = OccupiedIndices(slots)
            /\ {y[n][2] : n \in 1 .. Len(y)} = 0 .. (k - 1)
            /\ \A n \in 1 .. Len(y) :
                  /\ y[n][2] = RankOf(slots, y[n][1])
                  /\ y[n][3] = At(slots, y[n][1]).val
            /\ \A n, m \in 1 .. Len(y) :
                  n < m => (y[n][1] < y[m][1] /\ y[n][2] < y[m][2])

C20_Witness ==
    /\ last.op = "flatten_enumerate"
    /\ Len(last.yielded) = 2
    /\ last.yielded[1][1] = 1
    /\ last.yielded[2][1] = 3
    /\ last.yielded[2][2] = 1
    /\ IsAllocated(At(slots, 2))

\* the operations of the arena that reserve, fill and release slots
StorageOps == {"allocate_slots", "insert_vec", "insert_alloc_vec", "free"}

\* C29: across any sequence of allocate, insert, insert_batch and free,
\* allocate never returns a run that contains an Allocated or Occupied slot:
\* two outstanding reservations never overlap, the value of an Occupied slot
\* is never overwritten or moved until that slot is freed, and the storage
\* length never decreases.
C29_NoOverlapNoOverwrite ==
    last.op \in StorageOps =>
        /\ last.op = "allocate_slots" =>
              /\ \A i \in last.ret .. (last.ret + last.count - 1) :
                    /\ i < Len(last.pre) => IsNone(At(last.pre, i))
                    /\ IsAllocated(At(slots, i))
              /\ \A i \in Indices(last.pre) :
                    IsAllocated(At(last.pre, i)) =>
                        /\ IsAllocated(At(slots, i))
                        /\ ~(i >= last.ret /\ i < last.ret + last.count)
        /\ \A i \in Indices(last.pre) :
              (IsSome(At(last.pre, i))
                  /\ ~(last.op = "free" /\ last.slot = i)) =>
                  At(slots, i) = At(last.pre, i)
        /\ Len(slots) >= Len(last.pre)

C29_Witness ==
    /\ last.op = "allocate_slots"
    /\ last.count = MaxCount
    /\ last.ret > 0
    /\ last.ret + last.count = Len(last.pre)
    /\ \E i, j \in 0 .. (last.ret - 1) :
          /\ IsAllocated(At(last.pre, i))
          /\ IsSome(At(last.pre, j))
          /\ IsAllocated(At(slots, i))
          /\ At(slots, j) = At(last.pre, j)

(***************************************************************************)
(* Claims about the grouping.                                              *)
(***************************************************************************)
Nodes == 0 .. max_index

Grouped == last.op \in {"groups_from_connections", "regroup_permuted",
                        "regroup_reversed"}

\* the members of the g-th group of a CSR, as a set
GroupSet(c, g) == {At(c.indices, i) : i \in c.indptr[g].a .. (c.indptr[g].b - 1)}

GroupSets(c) == [g \in 1 .. Len(c.indptr) |-> GroupSet(c, g)]

\* the nodes joined to a node of S by a path of edges
RECURSIVE ReachFrom(_, _)
ReachFrom(conns, S) ==
    LET N == S \cup {conns[k].b : k \in {j \in 1 .. Len(conns) : conns[j].a \in S}}
               \cup {conns[k].a : k \in {j \in 1 .. Len(conns) : conns[j].b \in S}}
    IN  IF N = S THEN S ELSE ReachFrom(conns, N)

\* C5: two nodes are in the same group if and only if a path of edges joins
\* them (the groups are the connected components, isolated nodes forming
\* singletons); the edges (0,1),(1,2),(3,4) with max_index 5 give {0,1,2},
\* {3,4}, {5}.
C5_GroupsAreComponents ==
    Grouped =>
        /\ \A u, v \in Nodes :
              (\E g \in 1 .. Len(csr.indptr) :
                    u \in GroupSet(csr, g) /\ v \in GroupSet(csr, g))
              <=> v \in ReachFrom(pairs, {u})
        /\ (pairs = TestCsrConnections /\ max_index = TestCsrMaxIndex) =>
              {GroupSet(csr, g) : g \in 1 .. Len(csr.indptr)}
                 = {{0, 1, 2}, {3, 4}, {5}}

C5_Witness ==
    /\ last.op = "groups_from_connections"
    /\ pairs = TestCsrConnections
    /\ max_index = TestCsrMaxIndex
    /\ Len(csr.indptr) = 3

\* C6: the output is a partition: the flattened indices array has length
\* max_index + 1 and holds every node id exactly once, and the group ranges
\* are non-empty half-open intervals that tile it (first start 0, each start
\* the previous end, last end max_index + 1).
C6_Partition ==
    Grouped =>
        /\ Len(csr.indices) = max_index + 1
        /\ \A n \in Nodes :
              Cardinality({i \in Indices(csr.indices) : At(csr.indices, i) = n}) = 1
        /\ Len(csr.indptr) >= 1
        /\ csr.indptr[1].a = 0
        /\ csr.indptr[Len(csr.indptr)].b = max_index + 1
        /\ \A g \in 1 .. Len(csr.indptr) :
              /\ csr.indptr[g].a < csr.indptr[g].b
              /\ g > 1 => csr.indptr[g].a = csr.indptr[g - 1].b

C6_Witness ==
    /\ last.op = "groups_from_connections"
    /\ max_index = 2
    /\ Len(csr.indptr) = 2
    /\ csr.indptr[1].b = 2
    /\ At(csr.indices, 2) = 1

\* C7: group order follows the ascending sweep over node ids and not the
\* order of the edges: the first member of each group is the smallest id of
\* the group, the groups appear in ascending order of that first member, and
\* exchanging two edges of the list or the endpoints of an edge changes
\* neither the membership nor the order of the groups.
FirstMember(c, g) == At(c.indices, c.indptr[g].a)

C7_SweepOrder ==
    Grouped =>
        /\ \A g \in 1 .. Len(csr.indptr) :
              \A n \in GroupSet(csr, g) : FirstMember(csr, g) <= n
        /\ \A g, h \in 1 .. Len(csr.indptr) :
              g < h => FirstMember(csr, g) < FirstMember(csr, h)
        /\ last.op \in {"regroup_permuted", "regroup_reversed"} =>
              GroupSets(csr) = GroupSets(last.before)

C7_Witness ==
    /\ last.op = "regroup_permuted"
    /\ csr.indices # last.before.indices
    /\ GroupSets(csr) = <<{0, 1, 2}>>

\* the neighbours of node u in the order of the edge list, from edge k on
RECURSIVE NeighboursInOrder(_, _, _)
NeighboursInOrder(conns, k, u) ==
    IF k > Len(conns) THEN <<>>
    ELSE (IF conns[k].a = u THEN <<conns[k].b>> ELSE <<>>)
            \o (IF conns[k].b = u THEN <<conns[k].a>> ELSE <<>>)
            \o NeighboursInOrder(conns, k + 1, u)

\* the adjacency slice of node u: itself, then its neighbours
AdjacencySlice(conns, u) == <<u>> \o NeighboursInOrder(conns, 1, u)

\* the visitation order extended by the nodes of a slice, from position j on,
\* that it does not hold yet
RECURSIVE EnqueueNew(_, _, _)
EnqueueNew(order, slice, j) ==
    IF j > Len(slice) THEN order
    ELSE IF \E i \in 1 .. Len(order) : order[i] = slice[j]
    THEN EnqueueNew(order, slice, j + 1)
    ELSE EnqueueNew(Append(order, slice[j]), slice, j + 1)

\* the breadth-first visitation order: the i-th visited node enqueues the new
\* nodes of its adjacency slice behind every node enqueued before
RECURSIVE VisitationOrder(_, _, _)
VisitationOrder(conns, order, i) ==
    IF i > Len(order) THEN order
    ELSE VisitationOrder(conns,
             EnqueueNew(order, AdjacencySlice(conns, order[i]), 1), i + 1)

\* the members of the g-th group of a CSR, in their order
GroupMembers(c, g) ==
    [j \in 1 .. (c.indptr[g].b - c.indptr[g].a) |->
        At(c.indices, c.indptr[g].a + j - 1)]

\* the lowest node id that is in none of the groups before the g-th
LowestUnvisited(c, g) ==
    LET before == UNION {GroupSet(c, h) : h \in 1 .. (g - 1)}
        rest == Nodes \ before
    IN  CHOOSE n \in rest : \A m \in rest : n <= m

\* row u of the adjacency CSR
Row(adj, u) ==
    [j \in 1 .. (At(adj.indptr, u).b - At(adj.indptr, u).a) |->
        At(adj.indices, At(adj.indptr, u).a + j - 1)]

\* C24: within each group the member order is the BFS visitation order: the
\* start node (the lowest unvisited id of the sweep) comes first, then the
\* nodes in the order they were enqueued, the neighbours of a node being
\* enqueued in the order of that node's adjacency slice (itself first, then
\* its neighbours in edge-list order); every node is enqueued at most once.
C24_BfsOrder ==
    Grouped =>
        /\ \A g \in 1 .. Len(csr.indptr) :
              GroupMembers(csr, g)
                 = VisitationOrder(pairs, <<LowestUnvisited(csr, g)>>, 1)
        /\ \A u \in Nodes :
              Row(adjacent_from_connections(pairs, max_index), u)
                 = AdjacencySlice(pairs, u)
        /\ \A i, j \in Indices(csr.indices) :
              i # j => At(csr.indices, i) # At(csr.indices, j)

C24_Witness ==
    /\ Grouped
    /\ max_index = 2
    /\ csr.indices = <<0, 2, 1>>
    /\ Len(csr.indptr) = 1
    /\ AdjacencySlice(pairs, 0) = <<0, 2>>
    /\ AdjacencySlice(pairs, 2) = <<2, 0, 1>>

(***************************************************************************)
(* Claims about levers.                                                    *)
(***************************************************************************)
TheCell == At(slots, 0).val

\* C8: a torque T applied to a lever whose offset is longer than 1e-10 is
\* converted into the force perpendicular(application)/|application| *
\* (T/|application|), and that force goes through the lever's force path, so
\* that the body receives the force and a net torque of T as well.
C8_TorqueThroughForcePath ==
    (last.op = "lever_apply_torque" /\ length(last.application) > Epsilon) =>
        LET r == length(last.application)
            force == VMul(VDiv(perp(last.application), r), Div(last.torque, r))
        IN  /\ TheCell.force = VAdd(last.pre.force, force)
            /\ Mul(last.application.x, force.y)
                  - Mul(last.application.y, force.x) = last.torque
            /\ TheCell.torque = last.pre.torque + last.torque

\* C9: a force F applied to a lever adds F to the body's accumulated force
\* and application.x * F.y - application.y * F.x to its accumulated torque
\* and changes nothing else of the body; the lever's position is the body's
\* position plus the application offset.
C9_LeverForce ==
    last.op = "lever_apply_force" =>
        LET app == last.application
            F == last.force
        IN  /\ TheCell =
                  [last.pre EXCEPT
                      !.force = Vec2d(@.x + F.x, @.y + F.y),
                      !.torque = @ + (Mul(app.x, F.y) - Mul(app.y, F.x))]
            /\ last.pos = Vec2d(last.pre.position.x + app.x,
                                last.pre.position.y + app.y)

C9_Witness ==
    /\ last.op = "lever_apply_force"
    /\ last.pre.force # ZERO
    /\ last.pre.torque # 0
    /\ last.pre.position # ZERO
    /\ TheCell.torque # last.pre.torque
    /\ TheCell.torque # 0

\* C23: a lever whose application offset has length 0 (at most 1e-10)
\* forwards an applied torque T directly: the body's accumulated torque
\* increases by exactly T, and its accumulated force and everything else of
\* it are unchanged.
C23_ZeroArmForwardsTorque ==
    (last.op = "lever_apply_torque" /\ length(last.application) <= Epsilon) =>
        /\ TheCell.torque = last.pre.torque + last.torque
        /\ TheCell.force = last.pre.force
        /\ TheCell = [last.pre EXCEPT !.torque = @ + last.torque]

C23_Witness ==
    /\ last.op = "lever_apply_torque"
    /\ last.application = ZERO
    /\ last.pre.force # ZERO
    /\ last.torque = -2 * Unit
    /\ TheCell.torque # last.pre.torque
    /\ TheCell.force = last.pre.force

(***************************************************************************)
(* Claims about the spring.                                                *)
(***************************************************************************)
\* the force the last tick added to end A and to end B
AddedA == VSub(At(slots, 0).val.force, last.pre_a.force)

AddedB == VSub(At(slots, 1).val.force, last.pre_b.force)

Delta == VSub(last.pos_b, last.pos_a)

HookeLaw ==
    /\ AddedA = VNeg(AddedB)
    /\ VAdd(AddedA, AddedB) = ZERO
    /\ length(AddedB) = Mul(last.k, Abs(length(Delta) - last.length))
    /\ length(Delta) > last.length => dot(AddedA, Delta) > 0 /\ dot(AddedB, Delta) < 0
    /\ length(Delta) < last.length => dot(AddedA, Delta) < 0 /\ dot(AddedB, Delta) > 0

\* C13 as stated: for any two positions of A and B the force added to A is
\* the negation of the force added to B, its magnitude is
\* k * | |delta| - rest_length |, and it is attractive when |delta| >
\* rest_length and repulsive when |delta| < rest_length.
C13_HookeAnyPositions == last.op = "tick" => HookeLaw

\* C13 as amended: the same for any two distinct positions of A and B; when
\* the two positions coincide the spring adds no force to either end,
\* whatever its rest length.
C13_HookeDistinctPositions ==
    last.op = "tick" =>
        /\ Delta # ZERO => HookeLaw
        /\ Delta = ZERO => (AddedA = ZERO /\ AddedB = ZERO)

C13_Witness ==
    /\ last.op = "tick"
    /\ last.kind = "cell"
    /\ last.pre_a.force # ZERO
    /\ last.length = CenterLength
    /\ length(Delta) < last.length
    /\ Delta # ZERO
    /\ Delta.y > 0
    /\ AddedA.y < 0

\* C22: two cells placed exactly rest_length apart receive zero force from a
\* center spring of that rest length: after LinearSpring::tick the
\* accumulated force of both cells is unchanged (zero on the first step).
C22_RestIsIdempotent ==
    (last.op = "tick" /\ last.kind = "cell"
        /\ length(Delta) = last.length) =>
        /\ At(slots, 0).val.force = last.pre_a.force
        /\ At(slots, 1).val.force = last.pre_b.force
        /\ steps = 1 => /\ At(slots, 0).val.force = ZERO
                        /\ At(slots, 1).val.force = ZERO

C22_Witness ==
    /\ last.op = "tick"
    /\ last.kind = "cell"
    /\ last.length = CenterLength
    /\ last.k = SpringK
    /\ length(Delta) = CenterLength
    /\ steps = 2
    /\ last.pre_a.force # ZERO
    /\ At(slots, 0).val.force = last.pre_a.force

\* C26: when the two ends of a spring are at the same position (delta has
\* zero length) normalize yields the zero vector and LinearSpring::tick adds
\* zero force to both ends, for every rest length and stiffness (including
\* the center spring with rest length 2); the step does not fail.
C26_CoincidentEndsNoForce ==
    (last.op = "tick" /\ Delta = ZERO) =>
        /\ normalize(Delta) = ZERO
        /\ AddedA = ZERO
        /\ AddedB = ZERO
        /\ At(slots, 0).val = last.pre_a
        /\ At(slots, 1).val = last.pre_b
        /\ last.outcome = "ok"

C26_Witness ==
    /\ last.op = "tick"
    /\ last.kind = "cell"
    /\ Delta = ZERO
    /\ last.length = CenterLength
    /\ last.k = SpringK
    /\ last.pre_a.force # ZERO
    /\ At(slots, 0).val.force = last.pre_a.force

(***************************************************************************)
(* Claims about the simulation state.                                      *)
(***************************************************************************)
\* the number of positions of a sequence that hold x
Count(v, x) == Cardinality({k \in 1 .. Len(v) : v[k] = x})

\* C4: remove(id) frees arena slot id and removes every connection that
\* points toward id: afterwards no connection has id_a = id or id_b = id, and
\* every connection that did not reference id is still present exactly as
\* often as before (their order may change).
C4_RemovePurges ==
    (last.op = "remove" /\ last.outcome = "ok") =>
        /\ slots = Set(last.pre_slots, last.id, SlotNone)
        /\ \A k \in 1 .. Len(connections) :
              connections[k].id_a # last.id /\ connections[k].id_b # last.id
        /\ \A k \in 1 .. Len(last.pre_connections) :
              LET c == last.pre_connections[k] IN
              (c.id_a # last.id /\ c.id_b # last.id) =>
                  Count(connections, c) = Count(last.pre_connections, c)
        /\ \A k \in 1 .. Len(connections) :
              Count(last.pre_connections, connections[k]) > 0

C4_Witness ==
    /\ last.op = "remove"
    /\ last.outcome = "ok"
    /\ IsSome(At(last.pre_slots, last.id))
    /\ Len(last.pre_connections) = 2
    /\ Len(connections) = 1
    /\ points_toward(last.pre_connections[1], last.id)
    /\ connections[1] = last.pre_connections[2]
    /\ connections[1].id_a # connections[1].id_b

\* C10: after physics_pass(dt) has completed every Occupied cell has zero
\* accumulated force and zero accumulated torque; with cells created with
\* zero accumulators this holds in every state between steps, after any
\* number of steps.
C10_AccumulatorsReset ==
    Running =>
        \A i \in Indices(slots) :
            IsSome(At(slots, i)) =>
                /\ At(slots, i).val.force = ZERO
                /\ At(slots, i).val.torque = 0

C10_Witness ==
    /\ last.op = "physics_pass"
    /\ last.outcome = "ok"
    /\ steps = MaxSteps
    /\ \E i \in Indices(slots) :
          /\ IsSome(At(slots, i))
          /\ At(last.accumulated, i).val.force # ZERO
          /\ At(last.accumulated, i).val.torque # 0
          /\ At(slots, i).val.angular_velocity # 0
          /\ At(slots, i).val.force = ZERO
          /\ At(slots, i).val.torque = 0

\* C14: after N >= 0 steps on a state with zero connections and zero
\* viscosity every cell has its initial velocity and angular velocity, its
\* position is p0 + N*dt*velocity and its angle angle0 +
\* N*dt*angular_velocity; a cell that starts at rest is unchanged, and force
\* and torque are zero after every step.
C14_Ballistic ==
    (last.op = "physics_pass" /\ last.outcome = "ok"
        /\ connections = <<>> /\ viscosity = 0) =>
        \A i \in Indices(slots) :
            IsSome(At(slots, i)) =>
                LET c == At(slots, i).val
                    o == At(last.origin, i).val
                    N == last.passes
                IN  /\ c.velocity = o.velocity
                    /\ c.angular_velocity = o.angular_velocity
                    /\ c.position.x = o.position.x + N * Mul(Dt, o.velocity.x)
                    /\ c.position.y = o.position.y + N * Mul(Dt, o.velocity.y)
                    /\ c.angle = o.angle + N * Mul(Dt, o.angular_velocity)
                    /\ c.force = ZERO
                    /\ c.torque = 0
                    /\ (o.velocity = ZERO /\ o.angular_velocity = 0) => c = o

C14_Witness ==
    /\ last.op = "physics_pass"
    /\ last.outcome = "ok"
    /\ connections = <<>>
    /\ viscosity = 0
    /\ last.passes = 2
    /\ \E i, j \in Indices(slots) :
          /\ i # j
          /\ IsSome(At(slots, i))
          /\ IsSome(At(slots, j))
          /\ At(slots, i).val.velocity # ZERO
          /\ At(slots, i).val.angular_velocity # 0
          /\ At(slots, i).val.position # At(last.origin, i).val.position
          /\ At(slots, j).val.velocity # At(slots, i).val.velocity

\* a slot that is Occupied after the step and was not before it
Inserted(i) ==
    /\ i < Len(slots')
    /\ IsSome(At(slots', i))
    /\ ~(i < Len(slots) /\ IsSome(At(slots, i)))

\* C27: after remove(id) a later insertion that reuses arena index id yields
\* a cell with no incident connections: in every state reached by insertions
\* of cells, creation of connections between two distinct Occupied cells,
\* removals and steps, the two endpoints of each connection are distinct
\* Occupied slots, a slot never becomes Occupied while a connection points
\* toward it, and no step faults.
C27_NoStaleConnections ==
    /\ [](/\ \A k \in 1 .. Len(connections) :
                /\ connections[k].id_a # connections[k].id_b
                /\ Occupied(slots, connections[k].id_a)
                /\ Occupied(slots, connections[k].id_b)
          /\ last.op = "physics_pass" => last.outcome = "ok")
    /\ [][\A i \in 0 .. Len(slots) :
             Inserted(i) =>
                \A k \in 1 .. Len(connections') :
                    ~points_toward(connections'[k], i)]_vars

C27_Witness ==
    /\ last.op = "insert_cells"
    /\ last.removed = last.start
    /\ last.purged = 1
    /\ Occupied(slots, last.start)
    /\ connections = <<>>
    /\ steps = MaxLifeSteps

\* a connection that get_mut_pair cannot serve: equal endpoints, or an
\* endpoint that is not an Occupied slot
Faulty(cells, connection) ==
    \/ connection.id_a = connection.id_b
    \/ ~Occupied(cells, connection.id_a)
    \/ ~Occupied(cells, connection.id_b)

\* what the integration of a cell changes
Kinematics(cell) ==
    <<cell.position, cell.velocity, cell.angle, cell.angular_velocity>>

\* C28: a step that meets a connection with equal endpoints, or with an
\* endpoint that is not an Occupied slot, faults before any cell has been
\* integrated: at the point of the fault no cell's position, velocity, angle
\* or angular velocity differs from its value before the step, and the arena
\* slot states and the connection list are unchanged.
C28_FaultBeforeIntegration ==
    /\ []((last.op = "physics_pass"
             /\ \E k \in 1 .. Len(connections) :
                   Faulty(last.pre, connections[k])) =>
            /\ last.outcome = "panic"
            /\ Len(slots) = Len(last.pre)
            /\ \A i \in Indices(slots) :
                  /\ At(slots, i).tag = At(last.pre, i).tag
                  /\ IsSome(At(slots, i)) =>
                        Kinematics(At(slots, i).val)
                           = Kinematics(At(last.pre, i).val))
    /\ [][(last'.op = "physics_pass" /\ last'.outcome = "panic") =>
             connections' = connections]_vars

C28_Witness ==
    /\ last.op = "physics_pass"
    /\ last.outcome = "panic"
    /\ steps >= 1
    /\ Len(connections) = MaxCells
    /\ ~Faulty(slots, connections[1])
    /\ connections[MaxCells].id_a # connections[MaxCells].id_b
    /\ Faulty(slots, connections[MaxCells])
    /\ \E i \in Indices(slots) :
          /\ IsSome(At(slots, i))
          /\ At(slots, i).val.velocity # ZERO
          /\ At(slots, i).val.force # ZERO
          /\ At(last.pre, i).val.force = ZERO

(***************************************************************************)
(* Claims about the frame loop.                                            *)
(***************************************************************************)
\* C11 as stated: within one physics step no cell is integrated before force
\* accumulation has finished for all connections and all cells: every spring
\* force and every viscous force/torque of the step has been added before
\* the first cell's velocity or position is updated.
C11_AllForcesBeforeIntegration ==
    (pc.step = "pass" /\ pass.integrated # {}) =>
        /\ pass.k > Len(connections)
        /\ pass.damped = OccupiedIndices(slots)

\* the arena after all spring forces, then all viscous forces, then the
\* integration of all cells
AccumulateThenIntegrate(cells, conns, visc, dt) ==
    LET sprung == SpringLoop(cells, conns, 1).slots
        damped == [i \in 1 .. Len(sprung) |->
                      IF IsSome(sprung[i])
                      THEN SlotSome(apply_viscous_force(sprung[i].val, visc))
                      ELSE sprung[i]]
    IN  [i \in 1 .. Len(damped) |->
            IF IsSome(damped[i])
            THEN SlotSome(apply_force_integrate(damped[i].val, dt))
            ELSE damped[i]]

\* C11 as amended: within one physics step every spring force of the step
\* has been added before the first cell receives its viscous force or is
\* integrated, and each cell receives its own viscous force and torque
\* before it is integrated (the cells are taken one after the other in slot
\* order); the completed step equals the one that accumulates all forces
\* before it integrates any cell.
C11_SpringsThenCellByCell ==
    /\ (pc.step = "pass" /\ (pass.damped # {} \/ pass.integrated # {})) =>
          pass.k > Len(connections)
    /\ pc.step = "pass" =>
          /\ pass.integrated \subseteq pass.damped
          /\ \A i \in pass.damped : \A j \in OccupiedIndices(slots) :
                j < i => j \in pass.integrated
    /\ last.op = "step_unlock" =>
          slots = AccumulateThenIntegrate(last.pre, connections, viscosity, Dt)

C11_Witness ==
    /\ pc.step = "pass"
    /\ Len(connections) = 2
    /\ viscosity # 0
    /\ steps = 1
    /\ pass.integrated = {0}
    /\ pass.damped = {0, 1}
    /\ At(slots, 1).val.force # At(pass.pre, 1).val.force
    /\ At(slots, 2).val.velocity # ZERO

\* the arena after n whole physics passes
RECURSIVE WholeSteps(_, _, _, _)
WholeSteps(cells, conns, visc, n) ==
    IF n = 0 THEN cells
    ELSE WholeSteps(physics_pass(cells, conns, visc, Dt).slots, conns, visc,
                    n - 1)

\* C12: the simulation step and the renderer's read are mutually exclusive
\* (both take the same mutex): in every interleaving the reader sees the
\* state either before a step or after it has completed, never with some
\* cells integrated and others not and never with non-zero accumulators.
C12_ReaderSeesWholeSteps ==
    /\ pc.render \in {"locked", "accessed"} =>
          (pc.step # "pass" /\ mutex.holder = "render")
    /\ pc.step = "pass" => mutex.holder = "step"
    /\ (last.op = "access" /\ last.outcome = "ok") =>
          /\ last.during = NoPass
          /\ \E n \in 1 .. MaxCells :
                /\ connections = Organism(n).connections
                /\ last.seen = WholeSteps(Organism(n).slots, connections,
                                          viscosity, last.frames)
          /\ \A i \in OccupiedIndices(last.seen) :
                /\ At(last.seen, i).val.force = ZERO
                /\ At(last.seen, i).val.torque = 0

C12_Witness ==
    /\ last.op = "access"
    /\ last.outcome = "ok"
    /\ last.frames = 1
    /\ Len(connections) >= 1
    /\ Len(loader.primitives) >= 2
    /\ loader.primitives[2].translate # Organism(2).slots[2].val.position
    /\ pc.step = "idle"

(***************************************************************************)
(* Claims about the connection list.                                       *)
(***************************************************************************)
\* C21: every connection in the simulation's connection list satisfies
\* id_a != id_b, in every reachable state (after any sequence of connection
\* creation through CellConnection::new, cell insertion and removal).
C21_DistinctEndpoints ==
    \A k \in 1 .. Len(connections) :
        connections[k].id_a # connections[k].id_b

\* what run() derives from a state copied under the lock
DerivedFrom(snap) ==
    process(access(flush, snap.cells, snap.connections).loader).loader

\* the transforms of the Occupied cells of an arena, in index order
Transforms(cells) ==
    LET occupied == flatten_iter(cells) IN
    [n \in 1 .. Len(occupied) |-> get_transform(occupied[n])]

\* C25: the renderer holds the simulation lock only while it copies cells
\* and connections out of the state (access) and has released it before it
\* derives groups and GPU buffers (process); the derived output depends only
\* on the snapshot taken under the lock, and a simulation step interleaved
\* between the release and the derivation does not change it.
C25_DerivedFromSnapshot ==
    /\ mutex.holder = "render" <=> pc.render \in {"locked", "accessed"}
    /\ pc.render = "released" =>
          loader = access(flush, snapshot.cells, snapshot.connections).loader
    /\ (last.op = "process" /\ last.outcome = "ok") =>
          /\ loader = DerivedFrom(snapshot)
          /\ loader.gpu_primitives = Transforms(snapshot.cells)

C25_Witness ==
    /\ last.op = "process"
    /\ last.outcome = "ok"
    /\ steps >= 1
    /\ slots # snapshot.cells
    /\ loader.gpu_primitives # Transforms(slots)
    /\ Len(loader.gpu_primitives) = MaxCells
    /\ Len(loader.gpu_render_instances) = 1

\* the render instances and primitive indices of the loader as a CSR
LoaderGroups ==
    [indices |-> loader.gpu_primitive_indices,
     indptr |-> [g \in 1 .. Len(loader.gpu_render_instances) |->
                    IdxPair(loader.gpu_render_instances[g].start_i,
                            loader.gpu_render_instances[g].end_i)]]

\* C30: for every reachable simulation state (any number of live cells, any
\* arena length, connections consistent with the arena) the loader run
\* completes without fault, it rewrites the endpoints of each connection to
\* the dense ranks reported by flatten_enumerate, and the grouping partitions
\* exactly the dense ranks 0 .. live_cell_count - 1, each group being one
\* connected cluster of live cells.
C30_LoaderRunsOnEveryState ==
    last.op = "run" =>
        LET live == Len(flatten_iter(slots))
            ranks == 0 .. (live - 1)
        IN  /\ last.outcome = "ok"
            /\ loader.connections =
                  [k \in 1 .. Len(connections) |->
                      IdxPair(RankOf(slots, connections[k].id_a),
                              RankOf(slots, connections[k].id_b))]
            /\ Len(loader.gpu_primitive_indices) = live
            /\ {At(loader.gpu_primitive_indices, i) :
                   i \in Indices(loader.gpu_primitive_indices)} = ranks
            /\ \A u, v \in ranks :
                  (\E g \in 1 .. Len(LoaderGroups.indptr) :
                        /\ u \in GroupSet(LoaderGroups, g)
                        /\ v \in GroupSet(LoaderGroups, g))
                  <=> v \in ReachFrom(loader.connections, {u})

====
